---- MODULE Spec2Model ----
(***************************************************************************)
(* A model of the Stillness Timer backend (src/backend.py): the session    *)
(* store, the sliding-window rate limiter, the violation tracker and the   *)
(* scoring engine, with the HTTP handlers that compose them.               *)
(*                                                                         *)
(* Time is the value of time.time() in whole seconds; a handler that runs  *)
(* without interruption reads one value of it.  A calendar date is the day *)
(* number of a timestamp (the ISO date string is a one-to-one rendering of *)
(* it).  The lines written to security.log and to the console are not     *)
(* part of the state.                                                      *)
(***************************************************************************)
EXTENDS Integers, Sequences, FiniteSets, TLC

\* ---------------------------------------------------------------- constants
MAX_REQUESTS_PER_MINUTE == 10
MAX_SESSION_DURATION == 14400
MIN_SESSION_DURATION == 1
MAX_SESSIONS_PER_DAY == 100
\* check_rate_limit: "current_time - ip_requests[0] > 60"
RATE_WINDOW == 60
\* log_security_event: "cutoff_time = time.time() - 86400"; also one calendar day
DAY_SECONDS == 86400
\* log_security_event: "IP_VIOLATIONS[ip] == 5" and "IP_VIOLATIONS[ip] >= 10"
MODERATE_THRESHOLD == 5
BLOCK_THRESHOLD == 10
\* detect_attack_patterns thresholds
RAPID_FIRE_EVENTS == 20
SCRAPING_EVENTS == 50
HOUR_SECONDS == 3600
PROBING_TYPES == 3
PROBING_LAST == 10
\* send_security_alert: "< 300:  # 5 minute cooldown"
ALERT_COOLDOWN_SECONDS == 300
\* "ENABLE_EMAIL_ALERTS = False  # Set to True when you configure email"
ENABLE_EMAIL_ALERTS == FALSE
\* calculate_percentile: "return 50  # Default if no other data"
DEFAULT_PERCENTILE == 50
\* IEEE-754 binary64: the 52 fraction bits of a significand, as 4 limbs of 13
FRAC_LIMBS == 4
LIMB_BITS == 13

\* ------------------------------------------------------------------- bounds
\* the clients (values of X-Forwarded-For / REMOTE_ADDR) that send requests
Clients == {"ip1", "ip2"}
\* value of time.time() when the process starts
StartTime == 0
\* the clock stops advancing here
MaxTime == 61
\* security events a client may have on record before it stops sending
MaxEvents == 11
\* longest list of prior durations tried in every order
MaxMixedLen == 3
\* worker threads of the threaded server, and requests each of them serves
NumThreads == 2
MaxServed == 2
\* the clock stops advancing here in the load run that fills a daily bucket
MaxBulkTime == 610
\* refusals on record after which the load run's client stops
MaxBulkEvents == 1
\* sessions the load run dates a day earlier
MaxEarlier == 1
\* sessions in the store after which the client of the snapshot run stops
MaxSnapSessions == 3
\* sessions per day after which the client of the input run stops
MaxInputSessions == 2
\* longest event history the probing heuristic is tried on
MaxProbeLen == 3
\* lines written to security.log, and calls of read_new_logs, in the monitor run
MaxLogLines == 3
MaxReads == 3

VARIABLES
    now,                \* time.time()
    sessions_by_date,   \* dict: date -> list of durations
    rate_limit_storage, \* defaultdict: ip -> deque of request times
    IP_VIOLATIONS,      \* defaultdict(int): ip -> count
    BLOCKED_IPS,        \* set of ips
    ATTACK_PATTERNS,    \* defaultdict(list): ip -> list of events
    app_initialized,    \* _app_initialized
    data_file,          \* contents of session_data.json
    response,           \* the request handled last and the response it got
    arrivals,           \* per client: its POSTs of the latest rate window
    threads,            \* worker threads of the threaded server
    pct,                \* arguments and result of a calculate_percentile call
    msg,                \* arguments and result of a generate_message call
    alerts,             \* the alerts send_security_alert has put out, in order
    ALERT_COOLDOWN,     \* defaultdict(float): cooldown key -> time of last alert
    security_log,       \* the file security.log: its lines, in order
    monitor             \* the SecurityMonitor object of the dashboard

vars == <<now, sessions_by_date, rate_limit_storage, IP_VIOLATIONS, BLOCKED_IPS,
          ATTACK_PATTERNS, alerts, ALERT_COOLDOWN, security_log, monitor,
          app_initialized, data_file, response, arrivals,
          threads, pct, msg>>

\* --------------------------------------------------------------- utilities
Max(a, b) == IF a >= b THEN a ELSE b

Abs(a) == IF a >= 0 THEN a ELSE 0 - a

\* a list of count copies of one value
Run(value, count) == [i \in 1..count |-> value]

\* timestamp.date(): the calendar day a time falls in
DateOf(t) == t \div DAY_SECONDS

\* "len(x) for x in sessions_by_date.values()" summed
RECURSIVE SumLens(_, _)
SumLens(store, keys) ==
    IF keys = {} THEN 0
    ELSE LET k == CHOOSE k \in keys : TRUE
         IN Len(store[k]) + SumLens(store, keys \ {k})

TotalSessions(store) == SumLens(store, DOMAIN store)

\* sessions_by_date.get(d, [])
Bucket(store, d) == IF d \in DOMAIN store THEN store[d] ELSE <<>>

\* -------------------------------------------------------- violation tracker
\* the event types log_security_event counts as violations
ViolationTypesAccess ==
    {"RATE_LIMIT_EXCEEDED", "INVALID_DATA", "BLOCKED_IP", "BLOCKED_IP_ACCESS"}
ViolationTypes == {"RATE_LIMIT_EXCEEDED", "INVALID_DATA", "BLOCKED_IP"}

\* "'INVALID' in e['type']" over the event types the service emits
ContainsINVALID(type) == type \in {"INVALID_DATA"}

\* the security state log_security_event reads and writes
SecState == [viol |-> IP_VIOLATIONS, blocked |-> BLOCKED_IPS,
             patterns |-> ATTACK_PATTERNS, alerts |-> alerts,
             cooldown |-> ALERT_COOLDOWN]

\* "BLOCKED_IPS.add(ip)"
BlockAddBroken(blocked, ip) == {ip}
BlockAdd(blocked, ip) == blocked \cup {ip}

\* "elif IP_VIOLATIONS[ip] >= 10"
ReachedBlockEarly(count) == count >= BLOCK_THRESHOLD - 1
ReachedBlock(count) == count >= BLOCK_THRESHOLD

\* the pruning loop of log_security_event: events of the last 24 hours stay
PruneOld(patterns, t) ==
    [c \in DOMAIN patterns |->
        SelectSeq(patterns[c], LAMBDA e : e.time > t - DAY_SECONDS)]

\* "{ip[:8]}": the first eight characters of the client identifier (the
\* identifiers of Clients are shorter than that)
FirstEight(ip) == ip

\* the subjects of the two alerts of log_security_event
RepeatedSubject(ip) == [text |-> "Repeated violations from IP", ip |-> FirstEight(ip)]
BlockedSubject(ip) == [text |-> "IP BLOCKED", ip |-> FirstEight(ip)]

\* "cooldown_key = f'{alert_type}_{subject}'"
CooldownKey(alert_type, subject) == <<alert_type, subject>>

\* "if current_time - ALERT_COOLDOWN[cooldown_key] < 300: return"
InCooldown(cooldown, key, t) ==
    key \in DOMAIN cooldown /\ t - cooldown[key] < ALERT_COOLDOWN_SECONDS

\* send_security_alert: out is [alerts, cooldown], the alerts put out so far
\* and ALERT_COOLDOWN.  An alert is [type, subject, time, by]: by tells whether
\* it went to the console (the print of the disabled path) or into an e-mail.
send_security_alert(out, subject, alert_type, t) ==
    LET key == CooldownKey(alert_type, subject)
        Put(by) == Append(out.alerts, [type |-> alert_type, subject |-> subject,
                                       time |-> t, by |-> by])
    IN  IF ~ENABLE_EMAIL_ALERTS
        THEN [alerts |-> Put("console"), cooldown |-> out.cooldown]
        ELSE IF InCooldown(out.cooldown, key, t) THEN out
        ELSE [alerts |-> Put("email"),
              cooldown |-> [k \in DOMAIN out.cooldown \cup {key} |->
                               IF k = key THEN t ELSE out.cooldown[k]]]

\* "if IP_VIOLATIONS[ip] == 5"
IsModerateFrom(count) == count >= MODERATE_THRESHOLD
IsModerate(count) == count = MODERATE_THRESHOLD

log_security_event(sec, event_type, ip, t) ==
    LET appended == [sec.patterns EXCEPT
                        ![ip] = Append(@, [type |-> event_type, time |-> t])]
        counted == event_type \in ViolationTypes
        count == IF counted THEN sec.viol[ip] + 1 ELSE sec.viol[ip]
        out == [alerts |-> sec.alerts, cooldown |-> sec.cooldown]
        sent == IF counted /\ IsModerate(count)
                THEN send_security_alert(out, RepeatedSubject(ip), "moderate", t)
                ELSE IF counted /\ ReachedBlock(count)
                THEN send_security_alert(out, BlockedSubject(ip), "critical", t)
                ELSE out
    IN  [viol |-> [sec.viol EXCEPT ![ip] = count],
         blocked |-> IF counted /\ ~IsModerate(count) /\ ReachedBlock(count)
                     THEN BlockAdd(sec.blocked, ip)
                     ELSE sec.blocked,
         patterns |-> PruneOld(appended, t),
         alerts |-> sent.alerts,
         cooldown |-> sent.cooldown]

detect_attack_patterns(sec, ip, t) ==
    LET recent_events == sec.patterns[ip]
        recent_minute == SelectSeq(recent_events, LAMBDA e : t - e.time < RATE_WINDOW)
        recent_hour == SelectSeq(recent_events, LAMBDA e : t - e.time < HOUR_SECONDS)
        n == Len(recent_events)
        invalid_types == {recent_events[i].type :
                            i \in {j \in Max(1, n - PROBING_LAST + 1)..n :
                                     ContainsINVALID(recent_events[j].type)}}
    IN  IF recent_events = <<>> THEN sec
        ELSE IF Len(recent_minute) > RAPID_FIRE_EVENTS
            THEN log_security_event(sec, "RAPID_FIRE_ATTACK", ip, t)
        ELSE IF Len(recent_hour) > SCRAPING_EVENTS
            THEN log_security_event(sec, "POSSIBLE_SCRAPING", ip, t)
        ELSE IF Cardinality(invalid_types) >= PROBING_TYPES
            THEN log_security_event(sec, "SYSTEMATIC_PROBING", ip, t)
        ELSE sec

\* the event types the service passes to log_security_event
EventTypes ==
    {"BLOCKED_IP_ACCESS", "RATE_LIMIT_EXCEEDED", "INVALID_DATA", "DAILY_LIMIT_EXCEEDED",
     "RAPID_FIRE_ATTACK", "POSSIBLE_SCRAPING", "SYSTEMATIC_PROBING"}

\* the lists of at most len events of these types that a client may have on
\* record, in every order, all of the second the process started in
RECURSIVE HistoriesUpTo(_)
HistoriesUpTo(len) ==
    IF len = 0 THEN {<<>>}
    ELSE LET shorter == HistoriesUpTo(len - 1)
         IN  shorter \cup {Append(h, [type |-> ty, time |-> StartTime]) :
                              h \in {x \in shorter : Len(x) = len - 1},
                              ty \in EventTypes}

\* ------------------------------------------------------------- rate limiter
\* "while ip_requests and current_time - ip_requests[0] > 60: popleft()"
RECURSIVE Evict(_, _)
EvictNone(q, t) == q
RECURSIVE EvictEager(_, _)
EvictEager(q, t) ==
    IF q # <<>> /\ t - Head(q) >= RATE_WINDOW THEN EvictEager(Tail(q), t) ELSE q
Evict(q, t) ==
    IF q # <<>> /\ t - Head(q) > RATE_WINDOW THEN Evict(Tail(q), t) ELSE q

\* "if len(ip_requests) >= MAX_REQUESTS_PER_MINUTE"
OverLimitLax(q) == Len(q) > MAX_REQUESTS_PER_MINUTE
OverLimit(q) == Len(q) >= MAX_REQUESTS_PER_MINUTE

\* "if ip_address in BLOCKED_IPS"
IsBlockedNever(blocked, ip) == FALSE
IsBlocked(blocked, ip) == ip \in blocked

\* returns the verdict with the rate windows and security state it leaves
check_rate_limit_first(rl, sec, ip, t) ==
    LET q == Evict(rl[ip], t)
    IN  IF OverLimit(q)
        THEN [ok |-> FALSE, rl |-> [rl EXCEPT ![ip] = q],
              sec |-> detect_attack_patterns(
                         log_security_event(sec, "RATE_LIMIT_EXCEEDED", ip, t),
                         ip, t)]
        ELSE IF IsBlocked(sec.blocked, ip)
        THEN [ok |-> FALSE, rl |-> rl,
              sec |-> log_security_event(sec, "BLOCKED_IP_ACCESS", ip, t)]
        ELSE [ok |-> TRUE, rl |-> [rl EXCEPT ![ip] = Append(q, t)],
              sec |-> sec]
check_rate_limit(rl, sec, ip, t) ==
    IF IsBlocked(sec.blocked, ip)
    THEN [ok |-> FALSE, rl |-> rl,
          sec |-> log_security_event(sec, "BLOCKED_IP_ACCESS", ip, t)]
    ELSE LET q == Evict(rl[ip], t)
         IN  IF OverLimit(q)
             THEN [ok |-> FALSE, rl |-> [rl EXCEPT ![ip] = q],
                   sec |-> detect_attack_patterns(
                              log_security_event(sec, "RATE_LIMIT_EXCEEDED", ip, t),
                              ip, t)]
             ELSE [ok |-> TRUE, rl |-> [rl EXCEPT ![ip] = Append(q, t)],
                   sec |-> sec]

\* ------------------------------------------------------------ session input
\* A JSON body is a record [dict, duration, timestamp]: dict says that it is a
\* JSON object (isinstance(data, dict)).  A field is a tagged record:
\*   duration:  [k |-> "absent"], [k |-> "int", v |-> n], [k |-> "text"] (a string
\*              that is no integer literal), [k |-> "null"], [k |-> "inf"] (a
\*              number beyond the range of a double, 1e999: json gives
\*              float('inf')), [k |-> "nan"] (the literal NaN)
\*   timestamp: [k |-> "absent"], [k |-> "iso", t |-> seconds], [k |-> "bad"] (a
\*              string that is no ISO-8601 datetime), [k |-> "number"]

\* int(data['duration']): the value, or the exception raised
IntOf(d) ==
    CASE d.k = "int"  -> [ok |-> TRUE, v |-> d.v]
      [] d.k = "text" -> [ok |-> FALSE, exc |-> "ValueError"]
      [] d.k = "null" -> [ok |-> FALSE, exc |-> "TypeError"]
      [] d.k = "inf"  -> [ok |-> FALSE, exc |-> "OverflowError"]
      [] d.k = "nan"  -> [ok |-> FALSE, exc |-> "ValueError"]

\* "except (ValueError, TypeError)"
CaughtByValidate == {"ValueError", "TypeError"}

\* "if duration < MIN_SESSION_DURATION"
TooShort(duration) == duration < MIN_SESSION_DURATION

\* "if duration > MAX_SESSION_DURATION"
TooLong(duration) == duration > MAX_SESSION_DURATION

\* the verdict [ok, msg], or [raised |-> exception] when an exception escapes
validate_session_data(data, t) ==
    IF ~data.dict THEN [raised |-> "none", ok |-> FALSE, msg |-> "Invalid data format"]
    ELSE IF data.duration.k = "absent"
        THEN [raised |-> "none", ok |-> FALSE, msg |-> "Duration is required"]
    ELSE IF ~IntOf(data.duration).ok /\ IntOf(data.duration).exc \in CaughtByValidate
        THEN [raised |-> "none", ok |-> FALSE, msg |-> "Duration must be a number"]
    ELSE IF ~IntOf(data.duration).ok
        \* int(float('inf')): OverflowError, not caught here
        THEN [raised |-> IntOf(data.duration).exc, ok |-> FALSE, msg |-> "none"]
    ELSE IF TooShort(IntOf(data.duration).v)
        THEN [raised |-> "none", ok |-> FALSE, msg |-> "Duration too short"]
    ELSE IF TooLong(IntOf(data.duration).v)
        THEN [raised |-> "none", ok |-> FALSE, msg |-> "Duration too long"]
    ELSE IF data.timestamp.k = "absent"
        THEN [raised |-> "none", ok |-> TRUE, msg |-> "Valid"]
    ELSE IF data.timestamp.k = "number"
        \* data['timestamp'].replace(...) on a non-string: AttributeError, not caught here
        THEN [raised |-> "AttributeError", ok |-> FALSE, msg |-> "none"]
    ELSE IF data.timestamp.k = "bad"
        THEN [raised |-> "none", ok |-> FALSE, msg |-> "Invalid timestamp format"]
    ELSE IF Abs(data.timestamp.t - t) > DAY_SECONDS
        THEN [raised |-> "none", ok |-> FALSE, msg |-> "Timestamp too far from current time"]
    ELSE [raised |-> "none", ok |-> TRUE, msg |-> "Valid"]

\* the timestamp submit_session attributes a validated session to
SessionTime(data, t) == IF data.timestamp.k = "iso" THEN data.timestamp.t ELSE t

\* ------------------------------------------------------------ scoring engine
\* Python computes int((shorter_sessions / len(all_durations)) * 100) in IEEE-754
\* binary64.  A significand of 53 bits is a leading bit and 52 fraction bits; the
\* fraction is held as FRAC_LIMBS limbs of LIMB_BITS bits each, the most
\* significant first.  The double [frac, exp] has the value
\* (1 + frac / 2^52) * 2^exp.

RECURSIVE Pow2(_)
Pow2(k) == IF k = 0 THEN 1 ELSE 2 * Pow2(k - 1)

Limb == Pow2(LIMB_BITS)

\* the k >= 0 with n <= s * 2^k < 2n
RECURSIVE Shift(_, _)
Shift(s, n) == IF s >= n THEN 0 ELSE 1 + Shift(2 * s, n)

\* the number of binary digits of v >= 1
RECURSIVE BitLen(_)
BitLen(v) == IF v < 2 THEN 1 ELSE 1 + BitLen(v \div 2)

\* the limbs of rem / n, most significant first, with the remainder left
RECURSIVE DivLimbs(_, _, _, _)
DivLimbs(rem, n, count, acc) ==
    IF count = 0 THEN [limbs |-> acc, rem |-> rem]
    ELSE DivLimbs((rem * Limb) % n, n, count - 1, Append(acc, (rem * Limb) \div n))

\* add one in the last place of a limb string whose last limb holds `width`
\* bits; carry tells whether the sum ran out of the first limb
RECURSIVE IncLimbs(_, _)
IncLimbs(limbs, width) ==
    IF limbs = <<>> THEN [limbs |-> <<>>, carry |-> TRUE]
    ELSE LET last == limbs[Len(limbs)]
             front == SubSeq(limbs, 1, Len(limbs) - 1)
         IN  IF last + 1 < Pow2(width)
             THEN [limbs |-> Append(front, last + 1), carry |-> FALSE]
             ELSE LET up == IncLimbs(front, LIMB_BITS)
                  IN  [limbs |-> Append(up.limbs, 0), carry |-> up.carry]

\* round-half-to-even: up says the discarded part is above a half of the last
\* place, tie that it is exactly a half
RoundLimbs(limbs, width, up, tie) ==
    IF up \/ (tie /\ limbs[Len(limbs)] % 2 = 1)
    THEN IncLimbs(limbs, width)
    ELSE [limbs |-> limbs, carry |-> FALSE]

\* s / n for 0 < s <= n, correctly rounded
FloatDiv(s, n) ==
    LET k == Shift(s, n)
        d == DivLimbs(s * Pow2(k) - n, n, FRAC_LIMBS, <<>>)
        r == RoundLimbs(d.limbs, LIMB_BITS, 2 * d.rem > n, 2 * d.rem = n)
    IN  [frac |-> r.limbs, exp |-> IF r.carry THEN 1 - k ELSE 0 - k]

\* limbs times a small integer m: the product's limbs, with the carry out
RECURSIVE MulLimbs(_, _, _, _)
MulLimbs(limbs, m, carry, acc) ==
    IF limbs = <<>> THEN [limbs |-> acc, carry |-> carry]
    ELSE LET v == limbs[Len(limbs)] * m + carry
         IN  MulLimbs(SubSeq(limbs, 1, Len(limbs) - 1), m, v \div Limb,
                      <<v % Limb>> \o acc)

\* x * m for a double x and an integer m in 2..Limb.  The product is given as
\* [whole, exp]: the integer part of (product / 2^exp), for the exp of x; the
\* fraction beside it is below one.  The exact product has BitLen(whole) - 1
\* bits more than a significand holds, which rounding takes off its low end.
FloatMul(x, m) ==
    LET p == MulLimbs(x.frac, m, 0, <<>>)
        whole == m + p.carry
        extra == BitLen(whole) - 1
        low == p.limbs[FRAC_LIMBS]
        dropped == low % Pow2(extra)
        kept == [p.limbs EXCEPT ![FRAC_LIMBS] = low \div Pow2(extra)]
        half == Pow2(extra - 1)
        r == RoundLimbs(kept, LIMB_BITS - extra, dropped > half, dropped = half)
    IN  [whole |-> IF r.carry THEN whole + 1 ELSE whole, exp |-> x.exp]

\* int(y) for a product y = [whole, exp] with exp <= 0
FloatToInt(y) == y.whole \div Pow2(0 - y.exp)

\* int((shorter / total) * 100)
ScaledRatio(shorter, total) ==
    IF shorter = 0 THEN 0
    ELSE FloatToInt(FloatMul(FloatDiv(shorter, total), 100))

\* "sum(1 for d in all_durations if d < duration)"
CountLonger(duration, all_durations) ==
    Cardinality({i \in 1..Len(all_durations) : all_durations[i] > duration})
CountShorter(duration, all_durations) ==
    Cardinality({i \in 1..Len(all_durations) : all_durations[i] < duration})

calculate_percentile(duration, all_durations) ==
    IF all_durations = <<>> THEN DEFAULT_PERCENTILE
    ELSE ScaledRatio(CountShorter(duration, all_durations), Len(all_durations))

\* a message is [text, n]: the sentence, and the number it names for "{n}" (-1
\* when it names none)
NoMessage == [text |-> "none", n |-> 0 - 1]

\* "if percentile >= 99" and the elif lines after it
Above(percentile, bound) == percentile > bound
AtLeast(percentile, bound) == percentile >= bound

\* generate_message: time_str is built from the duration and never used;
\* total_sessions is not read
generate_message(duration, percentile, total_sessions) ==
    IF AtLeast(percentile, 99)
        THEN [text |-> "welcome to the nothing club - you are in the top 1% of users.",
              n |-> 0 - 1]
    ELSE IF AtLeast(percentile, 95)
        THEN [text |-> "stillness like this is rare - you're in the top {n}% of users.",
              n |-> 100 - percentile]
    ELSE IF AtLeast(percentile, 90)
        THEN [text |-> "exceptional focus - you outlasted {n}% of users today.",
              n |-> percentile]
    ELSE IF AtLeast(percentile, 75)
        THEN [text |-> "you were more still than {n}% of users today.",
              n |-> percentile]
    ELSE IF AtLeast(percentile, 50)
        THEN [text |-> "good practice - you were more still than {n}% of users today.",
              n |-> percentile]
    ELSE IF AtLeast(percentile, 25)
        THEN [text |-> "every moment of stillness counts. keep practicing.", n |-> 0 - 1]
    ELSE [text |-> "stillness is a practice. this is a beautiful start.", n |-> 0 - 1]

\* ----------------------------------------------------------------- snapshot
\* The text of session_data.json is a sequence of character codes.  The ten
\* characters of a date key (an ISO date, which json writes between quotes as
\* it is) are stood for by one element, the day number of the date.
Ch(c) ==
    CASE c = "{" -> 123 [] c = "}" -> 125 [] c = "[" -> 91 [] c = "]" -> 93
      [] c = "," -> 44  [] c = ":" -> 58  [] c = " " -> 32 [] c = "quote" -> 34
      [] c = "-" -> 45  [] c = "0" -> 48  [] c = "9" -> 57

\* json.dump of an int: its decimal digits
DigitsLossy(n) == <<Ch("0") + (n % 10)>>
RECURSIVE Digits(_)
Digits(n) ==
    IF n < 0 THEN <<Ch("-")>> \o Digits(0 - n)
    ELSE IF n < 10 THEN <<Ch("0") + n>>
    ELSE Append(Digits(n \div 10), Ch("0") + (n % 10))

\* json.dump of the items lo..hi of a list of ints, joined by ", " (the list
\* is written half by half)
RECURSIVE DumpItems(_, _, _)
DumpItems(list, lo, hi) ==
    IF lo > hi THEN <<>>
    ELSE IF lo = hi THEN Digits(list[lo])
    ELSE LET mid == (lo + hi) \div 2
         IN  DumpItems(list, lo, mid) \o <<Ch(","), Ch(" ")>>
             \o DumpItems(list, mid + 1, hi)

DumpList(list) == <<Ch("[")>> \o DumpItems(list, 1, Len(list)) \o <<Ch("]")>>

\* the members of the object for the dates in keys; first tells that none was
\* written yet.  The order of the members has no bearing on the dict that
\* json.load builds from them: dates are written in ascending order.
RECURSIVE DumpMembers(_, _, _)
DumpMembers(store, keys, first) ==
    IF keys = {} THEN <<>>
    ELSE LET d == CHOOSE k \in keys : \A other \in keys : k <= other
         IN  (IF first THEN <<>> ELSE <<Ch(","), Ch(" ")>>)
             \o <<Ch("quote"), d, Ch("quote"), Ch(":"), Ch(" ")>>
             \o DumpList(store[d])
             \o DumpMembers(store, keys \ {d}, FALSE)

\* json.dump(sessions_by_date, f)
json_dump(store) ==
    <<Ch("{")>> \o DumpMembers(store, DOMAIN store, TRUE) \o <<Ch("}")>>

\* a parse result: [ok, v, next]: whether the text was well formed, the value
\* read and the position after it
ParseError == [ok |-> FALSE, v |-> <<>>, next |-> 0]

At(text, i) == IF i \in 1..Len(text) THEN text[i] ELSE 0 - 1

\* whitespace between tokens is skipped
RECURSIVE SkipSpace(_, _)
SkipSpace(text, i) == IF At(text, i) = Ch(" ") THEN SkipSpace(text, i + 1) ELSE i

IsDigit(c) == c \in Ch("0")..Ch("9")

\* the digits from position i on, read into acc
RECURSIVE ParseDigits(_, _, _)
ParseDigits(text, i, acc) ==
    IF IsDigit(At(text, i))
    THEN ParseDigits(text, i + 1, 10 * acc + (text[i] - Ch("0")))
    ELSE [ok |-> TRUE, v |-> acc, next |-> i]

\* an integer literal at position i
ParseInt(text, i) ==
    LET Negated(r) == [ok |-> TRUE, v |-> 0 - r.v, next |-> r.next]
        Literal(c, d) ==
            IF c = Ch("-") /\ IsDigit(d) THEN Negated(ParseDigits(text, i + 1, 0))
            ELSE IF IsDigit(c) THEN ParseDigits(text, i, 0)
            ELSE ParseError
    IN  Literal(At(text, i), At(text, i + 1))

\* the items that the positions lo..hi of an array hold: one integer literal
\* with whitespace around it, or items on either side of a comma (the comma
\* nearest to the middle: the text is read half by half)
RECURSIVE ParseItems(_, _, _)
ParseItems(text, lo, hi) ==
    LET One(n) ==
            IF n.ok /\ SkipSpace(text, n.next) > hi /\ n.next <= hi + 1
            THEN [ok |-> TRUE, v |-> <<n.v>>, next |-> hi + 1]
            ELSE ParseError
        Both(left, right) ==
            IF left.ok /\ right.ok
            THEN [ok |-> TRUE, v |-> left.v \o right.v, next |-> hi + 1]
            ELSE ParseError
        Halves(split) ==
            Both(ParseItems(text, lo, split - 1), ParseItems(text, split + 1, hi))
        Nearest(commas, after) ==
            IF after # {} THEN CHOOSE k \in after : \A c \in after : k <= c
            ELSE CHOOSE k \in commas : \A c \in commas : k >= c
        Items(commas) ==
            IF commas = {} THEN One(ParseInt(text, SkipSpace(text, lo)))
            ELSE Halves(Nearest(commas, {k \in commas : 2 * k >= lo + hi}))
    IN  Items({k \in lo..hi : text[k] = Ch(",")})

\* an array of integers at position i (arrays are not nested: the array ends
\* at the next closing bracket)
ParseList(text, i) ==
    LET Closed(items, close) ==
            IF items.ok THEN [items EXCEPT !.next = close + 1] ELSE ParseError
        Upto(close) ==
            IF SkipSpace(text, i + 1) = close
            THEN [ok |-> TRUE, v |-> <<>>, next |-> close + 1]
            ELSE Closed(ParseItems(text, i + 1, close - 1), close)
        Array(closing) ==
            IF At(text, i) # Ch("[") \/ closing = {} THEN ParseError
            ELSE Upto(CHOOSE k \in closing : \A c \in closing : k <= c)
    IN  Array({k \in i + 1..Len(text) : text[k] = Ch("]")})

\* the members of an object from position i (the quote of a key) on; a key
\* that comes again replaces the value read before
RECURSIVE ParseMembers(_, _, _)
ParseMembers(text, i, acc) ==
    LET Read(key, list) ==
            [d \in DOMAIN acc \cup {key} |-> IF d = key THEN list.v ELSE acc[d]]
        After(read, j, c) ==
            IF c = Ch(",") THEN ParseMembers(text, SkipSpace(text, j + 1), read)
            ELSE IF c = Ch("}") THEN [ok |-> TRUE, v |-> read, next |-> j + 1]
            ELSE ParseError
        Follow(read, j) == After(read, j, At(text, j))
        Value(key, list) ==
            IF ~list.ok THEN ParseError
            ELSE Follow(Read(key, list), SkipSpace(text, list.next))
        Member(colon) ==
            IF At(text, i) # Ch("quote") \/ At(text, i + 2) # Ch("quote")
               \/ At(text, colon) # Ch(":")
            THEN ParseError
            ELSE Value(At(text, i + 1), ParseList(text, SkipSpace(text, colon + 1)))
    IN  Member(SkipSpace(text, i + 3))

\* json.load(f): the dict read, or ok = FALSE where json raises
json_load(text) ==
    LET Whole(r) ==
            IF r.ok /\ SkipSpace(text, r.next) = Len(text) + 1 THEN r ELSE ParseError
        Object(i, j) ==
            IF At(text, i) # Ch("{") THEN ParseError
            ELSE IF At(text, j) = Ch("}") THEN [ok |-> TRUE, v |-> <<>>, next |-> j + 1]
            ELSE ParseMembers(text, j, <<>>)
        Open(i) == Whole(Object(i, SkipSpace(text, i + 1)))
    IN  Open(SkipSpace(text, 1))

\* session_data.json is [state, content]: state "absent" (no file), "json" (the
\* text a json.dump wrote) or "corrupt" (a text cut short); content is the text
NoFile == [state |-> "absent", content |-> <<>>]

\* a snapshot that a run of the service left for a store
FileOf(store) == [state |-> "json", content |-> json_dump(store)]

\* load_data: the store after the call
load_data(store, file) ==
    IF file.state = "absent" THEN store
    ELSE LET Parsed(r) == IF r.ok THEN r.v ELSE <<>>
         IN  Parsed(json_load(file.content))

\* ensure_initialized: load_data runs while _app_initialized is False
ensure_initialized(initialized, store, file) ==
    IF initialized THEN store ELSE load_data(store, file)

\* save_data: the file after the call; disk tells how the write goes: "ok",
\* "open_fails" (open() raises, the file is untouched) or "write_fails" (the
\* file was truncated by open() and the dump did not complete)
save_data_latest(store, file, disk) ==
    LET latest == CHOOSE d \in DOMAIN store : \A e \in DOMAIN store : d >= e
    IN  CASE disk = "ok"          ->
                [state |-> "json",
                 content |-> json_dump([d \in {latest} |-> store[d]])]
          [] disk = "open_fails"  -> file
          [] disk = "write_fails" -> [state |-> "corrupt", content |-> <<>>]
save_data(store, file, disk) ==
    CASE disk = "ok"          -> [state |-> "json", content |-> json_dump(store)]
      [] disk = "open_fails"  -> file
      [] disk = "write_fails" -> [state |-> "corrupt", content |-> <<>>]

\* "except Exception as e" of save_data: the failures of the write that stay
\* inside save_data
CaughtNone(disk) == FALSE
Caught(disk) == disk \in {"open_fails", "write_fails"}

\* ---------------------------------------------------------------- responses
Reply(op, ip, status, error) ==
    [op |-> op, ip |-> ip, status |-> status, error |-> error,
     message |-> NoMessage, duration |-> 0 - 1, percentile |-> 0 - 1,
     sessions_today |-> 0 - 1, total_sessions |-> 0 - 1]

\* the 200 response of submit_session
Scored(ip, duration, percentile, store, today) ==
    [op |-> "POST", ip |-> ip, status |-> 200, error |-> "none",
     \* "generate_message(duration, percentile, len(today_sessions))"
     message |-> generate_message(duration, percentile, Len(store[today]) - 1),
     duration |-> duration, percentile |-> percentile,
     sessions_today |-> Len(store[today]),
     total_sessions |-> TotalSessions(store)]

\* the 200 response of home and get_stats: the counts it reports (the averages
\* and the longest session are left out)
Summary(op, ip, store, today) ==
    [op |-> op, ip |-> ip, status |-> 200, error |-> "none",
     message |-> NoMessage, duration |-> 0 - 1, percentile |-> 0 - 1,
     sessions_today |-> Len(Bucket(store, today)),
     total_sessions |-> TotalSessions(store)]

\* how many of a client's latest POSTs the model remembers
ArrivalsKept == MAX_REQUESTS_PER_MINUTE + 1

\* Remember one more POST of a client: when it arrived, how long the client had
\* been silent (-1 on its first request), whether check_rate_limit admitted it,
\* whether it was answered with the 429 rate-limit error and whether the client
\* was blocked when it arrived.  POSTs that arrived more than a rate window
\* before it are forgotten.
Arrived(arr, ip, t, admitted, limited, blocked) ==
    LET prev == arr[ip]
        idle == IF prev = <<>> THEN 0 - 1 ELSE t - prev[Len(prev)].time
        kept == SelectSeq(prev, LAMBDA e : e.time >= t - RATE_WINDOW)
        a == Append(kept, [time |-> t, idle |-> idle, admitted |-> admitted,
                           limited |-> limited, blocked |-> blocked])
    IN  [arr EXCEPT ![ip] = IF Len(a) > ArrivalsKept THEN Tail(a) ELSE a]

\* "if today not in sessions_by_date: sessions_by_date[today] = []"
WithBucket(store, today) ==
    [d \in DOMAIN store \cup {today} |-> Bucket(store, d)]

\* "if len(sessions_by_date[today]) >= MAX_SESSIONS_PER_DAY"
DayFullNever(bucket) == FALSE
DayFullAlways(bucket) == TRUE
DayFullLax(bucket) == Len(bucket) > MAX_SESSIONS_PER_DAY
DayFull(bucket) == Len(bucket) >= MAX_SESSIONS_PER_DAY

\* "today_sessions = sessions_by_date[today][:-1]"
IncludeCurrent(bucket) == bucket
ExcludeCurrent(bucket) == SubSeq(bucket, 1, Len(bucket) - 1)

\* ----------------------------------------------------------------- handlers
\* POST /api/session handled from start to end with no other request in
\* between.  req is [json, data]: json is request.is_json, data the parsed body.
SubmitSession(ip, req, disk) ==
    LET loaded == ensure_initialized(app_initialized, sessions_by_date, data_file)
        rate == check_rate_limit(rate_limit_storage, SecState, ip, now)
        was_blocked == ip \in BLOCKED_IPS
        verdict == validate_session_data(req.data, now)
        duration == IntOf(req.data.duration).v
        today == DateOf(SessionTime(req.data, now))
        keyed == WithBucket(loaded, today)
        full == log_security_event(rate.sec, "DAILY_LIMIT_EXCEEDED", ip, now)
        invalid == log_security_event(rate.sec, "INVALID_DATA", ip, now)
        stored == [keyed EXCEPT ![today] = Append(@, duration)]
        today_sessions == ExcludeCurrent(stored[today])
        percentile == calculate_percentile(duration, today_sessions)
        Finish(store, sec, file, resp) ==
            /\ sessions_by_date' = store
            /\ IP_VIOLATIONS' = sec.viol
            /\ BLOCKED_IPS' = sec.blocked
            /\ ATTACK_PATTERNS' = sec.patterns
            /\ alerts' = sec.alerts
            /\ ALERT_COOLDOWN' = sec.cooldown
            /\ UNCHANGED <<security_log, monitor>>
            /\ data_file' = file
            /\ response' = resp
            /\ arrivals' = Arrived(arrivals, ip, now, rate.ok,
                                   resp.status = 429 /\ resp.error = "rate_limit",
                                   was_blocked)
    IN  /\ app_initialized' = TRUE
        /\ rate_limit_storage' = rate.rl
        /\ UNCHANGED <<now, threads, pct, msg>>
        /\ IF ~rate.ok
           THEN Finish(loaded, rate.sec, data_file, Reply("POST", ip, 429, "rate_limit"))
           ELSE IF ~req.json
           THEN Finish(loaded, rate.sec, data_file, Reply("POST", ip, 400, "content_type"))
           ELSE IF verdict.raised # "none"
           THEN Finish(loaded, rate.sec, data_file, Reply("POST", ip, 500, "internal"))
           ELSE IF ~verdict.ok
           THEN Finish(loaded, invalid, data_file, Reply("POST", ip, 400, verdict.msg))
           ELSE IF DayFull(keyed[today])
           THEN Finish(keyed, full, data_file, Reply("POST", ip, 429, "daily_limit"))
           ELSE IF disk # "ok" /\ ~Caught(disk)
           THEN Finish(stored, rate.sec, save_data(stored, data_file, disk),
                       Reply("POST", ip, 500, "internal"))
           ELSE Finish(stored, rate.sec, save_data(stored, data_file, disk),
                       Scored(ip, duration, percentile, stored, today))

\* GET /
Home(ip) ==
    LET loaded == ensure_initialized(app_initialized, sessions_by_date, data_file)
    IN  /\ app_initialized' = TRUE
        /\ sessions_by_date' = loaded
        /\ response' = Summary("GET /", ip, loaded, DateOf(now))
        /\ UNCHANGED <<now, rate_limit_storage, IP_VIOLATIONS, BLOCKED_IPS,
                       ATTACK_PATTERNS, alerts, ALERT_COOLDOWN, security_log, monitor,
                       data_file, arrivals, threads, pct, msg>>

\* GET /api/stats
GetStats(ip) ==
    LET loaded == ensure_initialized(app_initialized, sessions_by_date, data_file)
    IN  /\ app_initialized' = TRUE
        /\ sessions_by_date' = loaded
        /\ response' = Summary("GET /api/stats", ip, loaded, DateOf(now))
        /\ UNCHANGED <<now, rate_limit_storage, IP_VIOLATIONS, BLOCKED_IPS,
                       ATTACK_PATTERNS, alerts, ALERT_COOLDOWN, security_log, monitor,
                       data_file, arrivals, threads, pct, msg>>

\* time passes between requests
Advance(step, limit) ==
    /\ now + step <= limit
    /\ now' = now + step
    /\ UNCHANGED <<sessions_by_date, rate_limit_storage, IP_VIOLATIONS, BLOCKED_IPS,
                   ATTACK_PATTERNS, alerts, ALERT_COOLDOWN, security_log, monitor,
                   app_initialized, data_file, response, arrivals,
                   threads, pct, msg>>

\* -------------------------------------------------------- dashboard monitor
\* security.log is [exists, lines, written]: lines are the lines in the file,
\* in order, each [id, len], where id numbers the lines in the order they were
\* written and len is the length of the line in bytes, newline included;
\* written counts the lines ever written to the file
NoLog == [exists |-> FALSE, lines |-> <<>>, written |-> 0]

\* SecurityMonitor.__init__; besides last_position the object is given the
\* result of its latest read_new_logs call, the number of calls and the lines
\* the calls have returned so far.  A returned line is [id, whole]: whole is
\* FALSE for a piece that starts in the middle of a line of the file
NewMonitor == [last_position |-> 0, new_lines |-> <<>>, calls |-> 0, seen |-> <<>>]

\* the offset of the byte after the first n lines
RECURSIVE Offset(_, _)
Offset(lines, n) == IF n = 0 THEN 0 ELSE Offset(lines, n - 1) + lines[n].len

\* "f.seek(self.last_position)" followed by "f.readlines()": what is read of
\* the lines n, n + 1, ... of the file from the byte at offset pos on
RECURSIVE readlines(_, _, _)
readlines(lines, pos, n) ==
    IF n > Len(lines) THEN <<>>
    ELSE LET From(start) ==
                 IF start + lines[n].len <= pos
                 THEN readlines(lines, pos, n + 1)
                 ELSE <<[id |-> lines[n].id, whole |-> start >= pos]>>
                      \o readlines(lines, pos, n + 1)
         IN  From(Offset(lines, n - 1))

\* "f.tell()" after the readlines: the end of the file, or the offset of the
\* seek when that lies behind the end
tell(lines, pos) == Max(pos, Offset(lines, Len(lines)))

\* SecurityMonitor.read_new_logs: the object after the call
read_new_logs(log, mon) ==
    IF ~log.exists
    THEN [mon EXCEPT !.new_lines = <<>>, !.calls = @ + 1]
    ELSE LET Got(new_lines) ==
                 [last_position |-> tell(log.lines, mon.last_position),
                  new_lines |-> new_lines,
                  calls |-> mon.calls + 1,
                  seen |-> mon.seen \o new_lines]
         IN  Got(readlines(log.lines, mon.last_position, 1))

\* ------------------------------------------------------------ initial state
NoResponse == Reply("none", "none", 0, "none")

\* the module's globals as the import of backend.py leaves them, beside a
\* snapshot file
Globals(file) ==
    /\ now = StartTime
    /\ sessions_by_date = <<>>
    /\ rate_limit_storage = [c \in Clients |-> <<>>]
    /\ IP_VIOLATIONS = [c \in Clients |-> 0]
    /\ BLOCKED_IPS = {}
    /\ ATTACK_PATTERNS = [c \in Clients |-> <<>>]
    /\ alerts = <<>>
    /\ ALERT_COOLDOWN = <<>>
    /\ security_log = NoLog
    /\ monitor = NewMonitor
    /\ app_initialized = FALSE
    /\ data_file = file
    /\ response = NoResponse
    /\ arrivals = [c \in Clients |-> <<>>]

\* the start of a run that handles its requests one at a time
Fresh(file) ==
    /\ Globals(file)
    /\ threads = <<>>
    /\ pct = <<>>
    /\ msg = <<>>

\* request bodies
Body(duration, timestamp) ==
    [dict |-> TRUE, duration |-> duration, timestamp |-> timestamp]
IntField(n) == [k |-> "int", v |-> n]
Absent == [k |-> "absent"]
Json(data) == [json |-> TRUE, data |-> data]

\* ------------------------------------------------ load run: one busy client
\* One client posts valid sessions again and again from an empty store: the
\* same session for the current day, now and then one dated a day earlier, in
\* bursts of any length the rate limit admits, pausing a full rate window (and
\* a second) after each burst.
BulkClient == "ip1"
BulkPause == RATE_WINDOW + 1
BulkToday == Body(IntField(60), Absent)
BulkEarlier == Body(IntField(MAX_SESSION_DURATION),
                    [k |-> "iso", t |-> now - DAY_SECONDS])

BulkInit == Fresh(NoFile)

\* when the client sent its latest POST
LastSent(c) == arrivals[c][Len(arrivals[c])].time

\* the client paces itself: it has sent fewer than MAX_REQUESTS_PER_MINUTE
\* requests in the last rate window, and it gives up after MaxBulkEvents refusals
BulkPaced ==
    /\ Len(SelectSeq(arrivals[BulkClient], LAMBDA e : e.time >= now - RATE_WINDOW))
          < MAX_REQUESTS_PER_MINUTE
    /\ Len(ATTACK_PATTERNS[BulkClient]) < MaxBulkEvents

BulkPost ==
    /\ BulkPaced
    /\ SubmitSession(BulkClient, Json(BulkToday), "ok")

BulkPostEarlier ==
    /\ BulkPaced
    /\ Len(Bucket(sessions_by_date, DateOf(now - DAY_SECONDS))) < MaxEarlier
    /\ SubmitSession(BulkClient, Json(BulkEarlier), "ok")

\* a pause follows a burst: the client has sent since the clock last moved
BulkWait ==
    /\ arrivals[BulkClient] # <<>>
    /\ LastSent(BulkClient) = now
    /\ Advance(BulkPause, MaxBulkTime)

BulkNext == BulkPost \/ BulkPostEarlier \/ BulkWait

SpecBulk == BulkInit /\ [][BulkNext]_vars

\* C1: from an empty store, with requests handled one at a time, no date's
\* bucket ever holds more than MAX_SESSIONS_PER_DAY durations.
DailyCapHolds ==
    \A d \in DOMAIN sessions_by_date :
        Len(sessions_by_date[d]) <= MAX_SESSIONS_PER_DAY

\* a bucket is full and the request handled last was turned away for it
DailyCapReached ==
    /\ \E d \in DOMAIN sessions_by_date :
            Len(sessions_by_date[d]) = MAX_SESSIONS_PER_DAY
    /\ response.error = "daily_limit"

\* C2: a POST that passes the rate limiter and validation and whose date's
\* bucket already holds MAX_SESSIONS_PER_DAY sessions is answered 429 with the
\* daily-limit error, and no bucket changes.
FullDayRejected ==
    [][\A body \in {BulkToday, BulkEarlier} :
          (/\ SubmitSession(BulkClient, Json(body), "ok")
           /\ check_rate_limit(rate_limit_storage, SecState, BulkClient, now).ok
           /\ validate_session_data(body, now).ok
           /\ Len(Bucket(sessions_by_date, DateOf(SessionTime(body, now))))
                 = MAX_SESSIONS_PER_DAY)
          => /\ response'.status = 429
             /\ response'.error = "daily_limit"
             /\ sessions_by_date' = sessions_by_date]_vars

\* a full bucket next to a non-empty one, after a daily-limit rejection
FullDayRejectedSeen ==
    /\ response.status = 429
    /\ response.error = "daily_limit"
    /\ \E d, e \in DOMAIN sessions_by_date :
          /\ d # e
          /\ Len(sessions_by_date[d]) = MAX_SESSIONS_PER_DAY
          /\ sessions_by_date[e] # <<>>

\* ------------------------------------------- rate run: a client and the clock
\* A client posts valid sessions at any pace while the clock moves in steps of
\* half a rate window and of half a window and a second, so that requests lie
\* exactly RATE_WINDOW and RATE_WINDOW + 1 seconds apart.  A second client posts
\* beside it at the start.
RateSteps == {RATE_WINDOW \div 2, RATE_WINDOW \div 2 + 1}
RateBody == Body(IntField(60), Absent)

RateInit == Fresh(NoFile)

RatePost ==
    /\ Len(ATTACK_PATTERNS["ip1"]) < MaxEvents
    /\ SubmitSession("ip1", Json(RateBody), "ok")

\* a second client, active only until the clock first moves
RatePostOther ==
    /\ now = StartTime
    /\ Len(ATTACK_PATTERNS["ip2"]) < MaxEvents
    /\ SubmitSession("ip2", Json(RateBody), "ok")

RateTick == \E step \in RateSteps : Advance(step, MaxTime)

RateNext == RatePost \/ RatePostOther \/ RateTick

SpecRate == RateInit /\ [][RateNext]_vars

\* the latest POST a client sent, as the model remembers it
LastArrival(c) == arrivals[c][Len(arrivals[c])]

\* the remembered POSTs of a client are ArrivalsKept requests of one rate window
ElevenInWindow(c) ==
    /\ Len(arrivals[c]) = ArrivalsKept
    /\ LastArrival(c).time - arrivals[c][1].time <= RATE_WINDOW

\* C4 as stated: whenever a client issues 11 POSTs within one 60-second
\* window, the 11th is rejected with a 429 rate-limit error.
EleventhRejected ==
    \A c \in Clients :
        ElevenInWindow(c)
        => (~LastArrival(c).admitted /\ LastArrival(c).limited)

\* C4 amended: whenever a client issues 11 POSTs within one 60-second window
\* and the rate limiter admitted the first ten of them, the 11th is rejected
\* with a 429 rate-limit error.
EleventhRejectedAfterTenAdmitted ==
    \A c \in Clients :
        (/\ ElevenInWindow(c)
         /\ \A i \in 1..MAX_REQUESTS_PER_MINUTE : arrivals[c][i].admitted)
        => (~LastArrival(c).admitted /\ LastArrival(c).limited)

\* ten admitted POSTs and an 11th, rejected, exactly RATE_WINDOW seconds later
EleventhRejectedSeen ==
    \E c \in Clients :
        /\ ElevenInWindow(c)
        /\ \A i \in 1..MAX_REQUESTS_PER_MINUTE : arrivals[c][i].admitted
        /\ LastArrival(c).time - arrivals[c][1].time = RATE_WINDOW
        /\ ~LastArrival(c).admitted
        /\ LastArrival(c).limited

\* C5 as stated: for every client and after any history, a POST that follows
\* at least 61 seconds of silence of that client is admitted by the rate limiter.
IdleClientAdmitted ==
    \A c \in Clients :
        (arrivals[c] # <<>> /\ LastArrival(c).idle >= RATE_WINDOW + 1)
        => LastArrival(c).admitted

\* C5 amended: for every client that is not blocked, a POST that follows at
\* least 61 seconds of silence of that client is admitted by the rate limiter.
IdleUnblockedClientAdmitted ==
    \A c \in Clients :
        (/\ arrivals[c] # <<>>
         /\ LastArrival(c).idle >= RATE_WINDOW + 1
         /\ ~LastArrival(c).blocked)
        => LastArrival(c).admitted

\* a client that had been turned away for its rate is admitted after 61 seconds
IdleClientAdmittedSeen ==
    \E c \in Clients :
        /\ arrivals[c] # <<>>
        /\ LastArrival(c).idle = RATE_WINDOW + 1
        /\ ~LastArrival(c).blocked
        /\ LastArrival(c).admitted
        /\ IP_VIOLATIONS[c] > 0

\* C19: right after check_rate_limit has run for a client that is not blocked,
\* the client's queue holds only timestamps at most RATE_WINDOW seconds old and
\* at most MAX_REQUESTS_PER_MINUTE of them; it is the part of the old queue
\* that is inside the window, with the current time added when the call
\* accepted and with nothing added when it rejected.
WindowKept ==
    [][\A c \in Clients :
          (c \notin BLOCKED_IPS /\ SubmitSession(c, Json(RateBody), "ok"))
          => LET after == rate_limit_storage'[c]
                 inside == SelectSeq(rate_limit_storage[c],
                                     LAMBDA e : now - e <= RATE_WINDOW)
                 accepted == arrivals'[c][Len(arrivals'[c])].admitted
             IN  /\ \A i \in DOMAIN after : now - after[i] <= RATE_WINDOW
                 /\ Len(after) <= MAX_REQUESTS_PER_MINUTE
                 /\ after = IF accepted THEN Append(inside, now) ELSE inside]_vars

\* a call was rejected on a full queue from which older timestamps had been
\* evicted and to which the current second had been added before
WindowKeptSeen ==
    \E c \in Clients :
        /\ arrivals[c] # <<>>
        /\ LastArrival(c).limited
        /\ ~LastArrival(c).blocked
        /\ Len(rate_limit_storage[c]) = MAX_REQUESTS_PER_MINUTE
        /\ Head(rate_limit_storage[c]) > StartTime
        /\ rate_limit_storage[c][MAX_REQUESTS_PER_MINUTE] = now

\* ------------------------------------------- input run: every kind of request
\* One client posts requests of every kind, all within one second: valid
\* sessions for the current day and for the day before, bodies whose duration
\* or timestamp fails validation, a body that is no JSON object and a request
\* with another content type.  The process starts beside no snapshot or beside
\* one whose bucket for the current day is full.  The client stops when a day
\* that was not full from the start holds MaxInputSessions sessions.
InputClient == "ip1"

InputFiles ==
    {NoFile, FileOf([d \in {DateOf(StartTime)} |-> Run(60, MAX_SESSIONS_PER_DAY)])}

\* "timestamp": an ISO-8601 datetime `offset` seconds from the server's time
IsoField(offset) == [k |-> "iso", t |-> now + offset]

InputValid ==
    {Body(IntField(30), Absent), Body(IntField(120), Absent),
     Body(IntField(60), IsoField(0 - DAY_SECONDS))}

InputBadDuration ==
    {Body(Absent, Absent), Body(IntField(MIN_SESSION_DURATION - 1), Absent),
     Body(IntField(MAX_SESSION_DURATION + 1), Absent), Body([k |-> "text"], Absent),
     Body([k |-> "null"], Absent), Body([k |-> "inf"], Absent),
     Body([k |-> "nan"], Absent)}

InputBadTimestamp ==
    {Body(IntField(60), IsoField(0 - DAY_SECONDS - 1)),
     Body(IntField(60), IsoField(DAY_SECONDS + 1)),
     Body(IntField(60), [k |-> "bad"]), Body(IntField(60), [k |-> "number"])}

\* a JSON value that is no object
NotAnObject == [dict |-> FALSE, duration |-> Absent, timestamp |-> Absent]

InputRequests ==
    {Json(b) : b \in InputValid \cup InputBadDuration \cup InputBadTimestamp
                      \cup {NotAnObject}}
    \cup {[json |-> FALSE, data |-> Body(IntField(60), Absent)]}

InputInit == \E file \in InputFiles : Fresh(file)

InputRoom ==
    \A d \in DOMAIN sessions_by_date :
        \/ Len(sessions_by_date[d]) < MaxInputSessions
        \/ Len(sessions_by_date[d]) = MAX_SESSIONS_PER_DAY

InputPost ==
    \E req \in InputRequests :
        /\ InputRoom
        /\ Len(ATTACK_PATTERNS[InputClient]) < MaxEvents
        /\ SubmitSession(InputClient, req, "ok")

InputNext == InputPost

SpecInput == InputInit /\ [][InputNext]_vars

\* the store as a request finds it: the first request of a process finds what
\* the snapshot gives
StoreFound == ensure_initialized(app_initialized, sessions_by_date, data_file)

\* C11: the percentile in the 200 response of a POST is calculate_percentile
\* of the request's duration over the durations its date's bucket held before
\* the append, and sessions_today is the length of that bucket plus one.  (Every
\* step of the input run is a POST.)
PercentileOverPrior ==
    [][(response'.status = 200 \/ sessions_by_date' # StoreFound)
          => \E d \in DOMAIN sessions_by_date' :
                LET prior == Bucket(StoreFound, d)
                IN  /\ sessions_by_date' =
                          [WithBucket(StoreFound, d) EXCEPT
                              ![d] = Append(prior, response'.duration)]
                    /\ response'.status = 200
                    /\ response'.percentile =
                          calculate_percentile(response'.duration, prior)
                    /\ response'.sessions_today = Len(prior) + 1]_vars

\* the second session of a day ties with the first: the prior list is that one
\* session, which is not shorter
PercentileOverPriorSeen ==
    /\ response.status = 200
    /\ response.duration = 30
    /\ response.sessions_today = 2
    /\ response.percentile = 0
    /\ sessions_by_date[DateOf(now)] = <<30, 30>>

\* C14: a POST answered with another status than 200 (blocked, rate-limited,
\* wrong content type, invalid payload, daily limit, internal error) leaves
\* sessions_by_date, its set of dates included, as the request found it.
FailureLeavesStore ==
    [][(response'.op = "POST" /\ response'.status # 200)
          => sessions_by_date' = StoreFound]_vars

\* an internal error was answered while sessions were stored and violations
\* were on record
FailureLeavesStoreSeen ==
    /\ response.op = "POST"
    /\ response.status = 500
    /\ sessions_by_date # <<>>
    /\ IP_VIOLATIONS[InputClient] > 0

\* C15: a POST that the rate limiter admits and whose JSON body has a missing,
\* non-numeric, below-1 or above-14400 duration is answered 400, puts one
\* INVALID_DATA violation on the client's record and appends nothing.
BadDurationRejected ==
    [][\A body \in InputBadDuration :
          (/\ SubmitSession(InputClient, Json(body), "ok")
           /\ check_rate_limit(rate_limit_storage, SecState, InputClient, now).ok)
          => /\ response'.status = 400
             /\ IP_VIOLATIONS'[InputClient] = IP_VIOLATIONS[InputClient] + 1
             /\ ATTACK_PATTERNS'[InputClient] =
                   Append(ATTACK_PATTERNS[InputClient],
                          [type |-> "INVALID_DATA", time |-> now])
             /\ sessions_by_date' = StoreFound]_vars

\* C16: a POST that the rate limiter admits and whose timestamp field is
\* present and either is no ISO-8601 datetime or lies more than 24 hours from
\* the server's time is answered 400 and appends nothing; a valid POST without
\* the field is stored under the server's current date.
BadTimestampRejected ==
    [][/\ \A body \in InputBadTimestamp :
             (/\ SubmitSession(InputClient, Json(body), "ok")
              /\ check_rate_limit(rate_limit_storage, SecState, InputClient, now).ok)
             => /\ response'.status = 400
                /\ sessions_by_date' = StoreFound
       /\ \A body \in {b \in InputValid : b.timestamp.k = "absent"} :
             (/\ SubmitSession(InputClient, Json(body), "ok")
              /\ response'.status = 200)
             => sessions_by_date' =
                   [WithBucket(StoreFound, DateOf(now)) EXCEPT
                       ![DateOf(now)] = Append(@, body.duration.v)]]_vars

\* ------------------------------------- order run: requests that fail twice
\* One client posts, all within one second, a valid session, JSON bodies that
\* fail validation in several ways and requests of another content type with
\* a valid and with an invalid body, beside no snapshot or beside one whose
\* bucket for the current day is full.  Every body is dated by the server.
OrderClient == "ip1"
OrderValid == Body(IntField(60), Absent)
OrderInvalid ==
    {Body(IntField(MIN_SESSION_DURATION - 1), Absent), Body([k |-> "inf"], Absent),
     Body(IntField(60), [k |-> "bad"]), NotAnObject}

OrderRequests ==
    {Json(b) : b \in OrderInvalid \cup {OrderValid}}
    \cup {[json |-> FALSE, data |-> b] :
            b \in {OrderValid, Body(IntField(MIN_SESSION_DURATION - 1), Absent)}}

OrderInit == \E file \in InputFiles : Fresh(file)

OrderPost ==
    \E req \in OrderRequests :
        /\ InputRoom
        /\ Len(ATTACK_PATTERNS[OrderClient]) < MaxEvents
        /\ SubmitSession(OrderClient, req, "ok")

OrderNext == OrderPost

SpecOrder == OrderInit /\ [][OrderNext]_vars

\* C21: the first of the checks block, rate limit, content type, validation,
\* daily limit that a POST fails decides the response, and no event of another
\* check is put on record: a request over the rate limit is answered 429 and
\* counted as one rate-limit violation, with no INVALID_DATA event, also when
\* its payload is invalid; a request that fails a later check, or none, has
\* added the current time to the client's rate window.
FirstFailingCheckOnly ==
    [][\A req \in OrderRequests :
          SubmitSession(OrderClient, req, "ok") =>
              LET c == OrderClient
                  inside == SelectSeq(rate_limit_storage[c],
                                      LAMBDA e : now - e <= RATE_WINDOW)
                  first ==
                      IF c \in BLOCKED_IPS THEN "block"
                      ELSE IF Len(inside) >= MAX_REQUESTS_PER_MINUTE THEN "rate"
                      ELSE IF ~req.json THEN "content_type"
                      ELSE IF req.data # OrderValid THEN "validation"
                      ELSE IF Len(Bucket(StoreFound, DateOf(now))) >= MAX_SESSIONS_PER_DAY
                          THEN "daily"
                      ELSE "none"
                  before == Len(ATTACK_PATTERNS[c])
                  types == {ATTACK_PATTERNS'[c][i].type :
                                i \in before + 1..Len(ATTACK_PATTERNS'[c])}
                  grown == IP_VIOLATIONS'[c] - IP_VIOLATIONS[c]
                  slot == rate_limit_storage'[c] = Append(inside, now)
                  kept == TotalSessions(sessions_by_date') = TotalSessions(StoreFound)
              IN  /\ SubSeq(ATTACK_PATTERNS'[c], 1, before) = ATTACK_PATTERNS[c]
                  /\ CASE first = "block" ->
                            /\ response'.status = 429 /\ response'.error = "rate_limit"
                            /\ types = {"BLOCKED_IP_ACCESS"}
                            /\ rate_limit_storage'[c] = rate_limit_storage[c]
                            /\ kept
                       [] first = "rate" ->
                            /\ response'.status = 429 /\ response'.error = "rate_limit"
                            /\ "RATE_LIMIT_EXCEEDED" \in types
                            /\ types \cap {"BLOCKED_IP_ACCESS", "INVALID_DATA",
                                           "DAILY_LIMIT_EXCEEDED"} = {}
                            /\ grown = 1
                            /\ rate_limit_storage'[c] = inside
                            /\ kept
                       [] first = "content_type" ->
                            /\ response'.status = 400 /\ response'.error = "content_type"
                            /\ types = {} /\ grown = 0 /\ slot /\ kept
                       [] first = "validation" ->
                            /\ response'.status \in {400, 500}
                            /\ response'.error \notin {"rate_limit", "content_type",
                                                       "daily_limit"}
                            /\ types \subseteq {"INVALID_DATA"}
                            /\ grown = Cardinality(types) /\ slot /\ kept
                       [] first = "daily" ->
                            /\ response'.status = 429 /\ response'.error = "daily_limit"
                            /\ types = {"DAILY_LIMIT_EXCEEDED"}
                            /\ grown = 0 /\ slot /\ kept
                       [] first = "none" ->
                            /\ response'.status = 200
                            /\ types = {} /\ grown = 0 /\ slot
                            /\ ~kept]_vars

\* a request was turned away for its rate, as the client's first violation
\* after invalid payloads of its had been refused, with the rate window full
\* of the slots that requests of every kind had taken
FirstFailingCheckOnlySeen ==
    LET events == ATTACK_PATTERNS[OrderClient]
    IN  /\ response.status = 429
        /\ response.error = "rate_limit"
        /\ OrderClient \notin BLOCKED_IPS
        /\ Len(rate_limit_storage[OrderClient]) = MAX_REQUESTS_PER_MINUTE
        /\ Len(events) = 3
        /\ events[1].type = "INVALID_DATA"
        /\ events[2].type = "INVALID_DATA"
        /\ events[3].type = "RATE_LIMIT_EXCEEDED"
        /\ IP_VIOLATIONS[OrderClient] = 3
        /\ TotalSessions(sessions_by_date) = 1

\* C24: whenever detect_attack_patterns has run on a record whose last
\* PROBING_LAST events hold at least PROBING_TYPES distinct invalid-request
\* types, a SYSTEMATIC_PROBING event follows; and some history of events the
\* service logs brings the heuristic to that flag.
ProbingFlaggedAndReached ==
    /\ \A c \in Clients :
          LET events == ATTACK_PATTERNS[c]
              n == Len(events)
              invalid == {events[i].type :
                             i \in {j \in Max(1, n - PROBING_LAST + 1)..n :
                                      ContainsINVALID(events[j].type)}}
          IN  (n > 0 /\ events[n].type = "RATE_LIMIT_EXCEEDED")
                  => Cardinality(invalid) < PROBING_TYPES
    /\ \E c \in Clients, h \in HistoriesUpTo(MaxProbeLen) :
          LET sec == [SecState EXCEPT !.patterns = [ATTACK_PATTERNS EXCEPT ![c] = h]]
              after == detect_attack_patterns(sec, c, now).patterns[c]
          IN  /\ Len(after) = Len(h) + 1
              /\ after[Len(after)].type = "SYSTEMATIC_PROBING"

\* ------------------------------------------ snapshot run: save and restart
\* One client posts valid sessions for the current day and for the day before
\* while the disk takes the snapshot, refuses the open or fails in the middle
\* of the write; between requests the process is stopped and started again
\* with `python backend.py`, which calls ensure_initialized() before it serves.
SnapClient == "ip1"
SnapBodies ==
    {Body(IntField(MIN_SESSION_DURATION), Absent),
     Body(IntField(MAX_SESSION_DURATION), Absent),
     Body(IntField(1050), IsoField(0 - DAY_SECONDS))}
Disks == {"ok", "open_fails", "write_fails"}

SnapInit == Fresh(NoFile)

SnapPost ==
    \E body \in SnapBodies, disk \in Disks :
        /\ TotalSessions(sessions_by_date) < MaxSnapSessions
        /\ SubmitSession(SnapClient, Json(body), disk)

\* the process ends and a new one starts beside the file the old one left:
\* the globals are those of the import and load_data reads the file
Restart ==
    /\ app_initialized
    /\ sessions_by_date' = load_data(<<>>, data_file)
    /\ rate_limit_storage' = [c \in Clients |-> <<>>]
    /\ IP_VIOLATIONS' = [c \in Clients |-> 0]
    /\ BLOCKED_IPS' = {}
    /\ ATTACK_PATTERNS' = [c \in Clients |-> <<>>]
    /\ alerts' = <<>>
    /\ ALERT_COOLDOWN' = <<>>
    /\ UNCHANGED <<security_log, monitor>>
    /\ app_initialized' = TRUE
    /\ response' = NoResponse
    /\ arrivals' = [c \in Clients |-> <<>>]
    /\ UNCHANGED <<now, data_file, threads, pct, msg>>

SnapNext == SnapPost \/ Restart

SpecSnap == SnapInit /\ [][SnapNext]_vars

\* C17: when the file is what save_data writes for the store in memory, a
\* restart loads a sessions_by_date with the same dates and, for each date, the
\* same durations in the same order.
SnapshotRoundTrip ==
    [][(Restart /\ data_file = save_data(sessions_by_date, data_file, "ok"))
          => /\ DOMAIN sessions_by_date' = DOMAIN sessions_by_date
             /\ \A d \in DOMAIN sessions_by_date :
                   sessions_by_date'[d] = sessions_by_date[d]]_vars

\* a restarted process holds two sessions of the current day, the longest
\* before the shortest, and one of the day before, and the file is their dump
SnapshotRoundTripSeen ==
    /\ app_initialized
    /\ response = NoResponse
    /\ DOMAIN sessions_by_date = {DateOf(now), DateOf(now - DAY_SECONDS)}
    /\ sessions_by_date[DateOf(now)] = <<MAX_SESSION_DURATION, MIN_SESSION_DURATION>>
    /\ sessions_by_date[DateOf(now - DAY_SECONDS)] = <<1050>>
    /\ data_file = save_data(sessions_by_date, data_file, "ok")

FailedWriteStillServed ==
    [][\A body \in SnapBodies, disk \in Disks \ {"ok"} :
          LET Served(loaded, today, duration) ==
                  (/\ SubmitSession(SnapClient, Json(body), disk)
                   /\ check_rate_limit(rate_limit_storage, SecState,
                                       SnapClient, now).ok
                   /\ validate_session_data(body, now).ok
                   /\ ~DayFull(Bucket(loaded, today)))
                  => /\ response'.status = 200
                     /\ response'.duration = duration
                     /\ response'.percentile =
                           calculate_percentile(duration, Bucket(loaded, today))
                     /\ today \in DOMAIN sessions_by_date'
                     /\ sessions_by_date'[today] =
                           Append(Bucket(loaded, today), duration)
          IN  Served(ensure_initialized(app_initialized, sessions_by_date, data_file),
                     DateOf(SessionTime(body, now)),
                     IntOf(body.duration).v)]_vars

\* the longest session of the day was scored above an earlier one and kept in
\* memory while the file was left cut short, and behind the store
FailedWriteStillServedSeen ==
    /\ response.status = 200
    /\ response.duration = MAX_SESSION_DURATION
    /\ response.percentile > 0
    /\ Len(sessions_by_date[DateOf(now)]) >= 2
    /\ data_file.state = "corrupt"

\* -------------------------------------------- abuse run: misbehaving clients
\* One client sends valid and invalid sessions, a second one only invalid ones;
\* both read the two GET endpoints.  Each sends until MaxEvents security events
\* are on its record, all within one second.
AbuseValid == Body(IntField(60), Absent)
AbuseInvalid == Body(IntField(0), Absent)
AbuseBodies == {AbuseValid, AbuseInvalid}

AbuseInit == Fresh(NoFile)

AbusePost ==
    \E body \in AbuseBodies :
        /\ Len(ATTACK_PATTERNS["ip1"]) < MaxEvents
        /\ SubmitSession("ip1", Json(body), "ok")

AbuseProbe ==
    /\ Len(ATTACK_PATTERNS["ip2"]) < MaxEvents
    /\ SubmitSession("ip2", Json(AbuseInvalid), "ok")

AbuseHome == \E ip \in Clients : Home(ip)

AbuseStats == \E ip \in Clients : GetStats(ip)

AbuseNext == AbusePost \/ AbuseProbe \/ AbuseHome \/ AbuseStats

SpecAbuse == AbuseInit /\ [][AbuseNext]_vars

\* C6: a client enters BLOCKED_IPS in the step that takes its violation count
\* to BLOCK_THRESHOLD, and is not in BLOCKED_IPS while its count is below it.
BlockedAtTen ==
    [][\A c \in Clients :
          /\ (IP_VIOLATIONS[c] < BLOCK_THRESHOLD /\ IP_VIOLATIONS'[c] >= BLOCK_THRESHOLD)
                => (c \notin BLOCKED_IPS /\ c \in BLOCKED_IPS')
          /\ IP_VIOLATIONS'[c] < BLOCK_THRESHOLD => c \notin BLOCKED_IPS']_vars

\* one client blocked with exactly BLOCK_THRESHOLD violations, the other one
\* violation short of it and not blocked
BlockedAtTenSeen ==
    \E c, d \in Clients :
        /\ IP_VIOLATIONS[c] = BLOCK_THRESHOLD
        /\ c \in BLOCKED_IPS
        /\ IP_VIOLATIONS[d] = BLOCK_THRESHOLD - 1
        /\ d \notin BLOCKED_IPS

\* C7: no step removes a client from BLOCKED_IPS.
BlockedForever == [][BLOCKED_IPS \subseteq BLOCKED_IPS']_vars

\* both clients are blocked and a blocked one has come back since
BlockedForeverSeen ==
    /\ BLOCKED_IPS = Clients
    /\ \E c \in Clients :
          /\ ATTACK_PATTERNS[c] # <<>>
          /\ ATTACK_PATTERNS[c][Len(ATTACK_PATTERNS[c])].type = "BLOCKED_IP_ACCESS"

\* C8: a POST from a blocked client is answered 429 and changes neither the
\* client's rate window, nor any bucket, nor the blocked set; the one event it
\* puts on record is a BLOCKED_IP_ACCESS.
BlockedPostRejected ==
    [][\A c \in Clients :
          (c \in BLOCKED_IPS /\ SubmitSession(c, Json(RateBody), "ok"))
          => /\ response'.status = 429
             /\ rate_limit_storage' = rate_limit_storage
             /\ sessions_by_date' = sessions_by_date
             /\ BLOCKED_IPS' = BLOCKED_IPS
             /\ ATTACK_PATTERNS' =
                  [ATTACK_PATTERNS EXCEPT
                      ![c] = Append(@, [type |-> "BLOCKED_IP_ACCESS", time |-> now])]]_vars

\* a blocked client was turned away although its rate window had run out
BlockedPostRejectedSeen ==
    \E c \in Clients :
        /\ c \in BLOCKED_IPS
        /\ response.ip = c
        /\ response.status = 429
        /\ ATTACK_PATTERNS[c][Len(ATTACK_PATTERNS[c])].type = "BLOCKED_IP_ACCESS"
        /\ Len(rate_limit_storage[c]) = MAX_REQUESTS_PER_MINUTE
        /\ now - Head(rate_limit_storage[c]) > RATE_WINDOW

\* C9: no request of a blocked client, to any endpoint, is served a 200.
BlockedNeverServed ==
    response.ip \in BLOCKED_IPS => response.status # 200

\* C13: in every step a client's violation count grows by the number of
\* rate-limit-exceeded, invalid-payload and blocked-access events the step
\* puts on the client's record, and by nothing else.
ViolationsCountEvents ==
    [][\A c \in Clients :
          LET logged == {i \in Len(ATTACK_PATTERNS[c]) + 1..Len(ATTACK_PATTERNS'[c]) :
                            ATTACK_PATTERNS'[c][i].type \in
                                {"RATE_LIMIT_EXCEEDED", "INVALID_DATA",
                                 "BLOCKED_IP_ACCESS"}}
          IN  IP_VIOLATIONS'[c] = IP_VIOLATIONS[c] + Cardinality(logged)]_vars

\* C27: with requests handled one at a time, no step lowers a client's
\* violation count or takes it above BLOCK_THRESHOLD, and after every step a
\* client is in BLOCKED_IPS exactly when its count is at least BLOCK_THRESHOLD.
ViolationsBounded ==
    [][\A c \in Clients :
          /\ IP_VIOLATIONS'[c] >= IP_VIOLATIONS[c]
          /\ IP_VIOLATIONS'[c] <= BLOCK_THRESHOLD
          /\ c \in BLOCKED_IPS' <=> IP_VIOLATIONS'[c] >= BLOCK_THRESHOLD]_vars

\* a client at BLOCK_THRESHOLD violations came back after it was blocked and
\* its count stayed, while the other client is counted but not yet blocked
ViolationsBoundedSeen ==
    \E c, d \in Clients :
        /\ IP_VIOLATIONS[c] = BLOCK_THRESHOLD
        /\ c \in BLOCKED_IPS
        /\ Len(ATTACK_PATTERNS[c]) > BLOCK_THRESHOLD
        /\ ATTACK_PATTERNS[c][Len(ATTACK_PATTERNS[c])].type = "BLOCKED_IP_ACCESS"
        /\ IP_VIOLATIONS[d] \in 1..BLOCK_THRESHOLD - 1
        /\ d \notin BLOCKED_IPS

\* --------------------------------------------- scoring run: the percentile
\* calculate_percentile is applied to a duration d and a list S of prior
\* durations of the day: every S of at most MaxMixedLen durations, in every
\* order, and every S of at most MAX_SESSIONS_PER_DAY - 1 durations that is a
\* run of the shortest valid duration followed by a run of the longest.
PctValues == {MIN_SESSION_DURATION, MIN_SESSION_DURATION + 1, MAX_SESSION_DURATION}
MaxPrior == MAX_SESSIONS_PER_DAY - 1

RECURSIVE ListsUpTo(_)
ListsUpTo(len) ==
    IF len = 0 THEN {<<>>}
    ELSE LET shorter == ListsUpTo(len - 1)
         IN  shorter \cup {Append(l, v) : l \in {x \in shorter : Len(x) = len - 1},
                                         v \in PctValues}

PctLists ==
    ListsUpTo(MaxMixedLen)
    \cup UNION {{Run(MIN_SESSION_DURATION, low) \o Run(MAX_SESSION_DURATION, total - low) :
                    low \in 0..total} : total \in 1..MaxPrior}

PctInit ==
    /\ Globals(NoFile)
    /\ threads = <<>>
    /\ msg = <<>>
    /\ \E d \in PctValues, S \in PctLists :
          pct = [duration |-> d, all_durations |-> S, scored |-> FALSE, percentile |-> 0]

PctScore ==
    /\ ~pct.scored
    /\ pct' = [pct EXCEPT !.scored = TRUE,
                          !.percentile = calculate_percentile(pct.duration,
                                                              pct.all_durations)]
    /\ UNCHANGED <<now, sessions_by_date, rate_limit_storage, IP_VIOLATIONS,
                   BLOCKED_IPS, ATTACK_PATTERNS, alerts, ALERT_COOLDOWN, security_log, monitor,
                   app_initialized, data_file,
                   response, arrivals, threads, msg>>

PctNext == PctScore

SpecPct == PctInit /\ [][PctNext]_vars

\* C10: for a valid duration d and a list S of at most 99 prior durations,
\* calculate_percentile(d, S) lies in 0..100 and is 50 when S is empty and
\* floor(100 * |{x in S : x < d}| / |S|) otherwise; durations equal to d do not
\* count as shorter.
PercentileIsFloor ==
    pct.scored =>
        /\ pct.percentile \in 0..100
        /\ pct.percentile =
              IF pct.all_durations = <<>> THEN 50
              ELSE (100 * Cardinality({i \in 1..Len(pct.all_durations) :
                                          pct.all_durations[i] < pct.duration}))
                      \div Len(pct.all_durations)

\* --------------------------------------- example run: five sessions of a day
\* One client posts sessions of the five durations 30, 120, 300, 60 and 45
\* seconds to an empty store, in any order and with repetitions, until the day
\* holds five sessions.
ExampleClient == "ip1"
ExampleDurations == <<30, 120, 300, 60, 45>>

ExampleInit == Fresh(NoFile)

ExamplePost ==
    \E i \in DOMAIN ExampleDurations :
        /\ Len(Bucket(sessions_by_date, DateOf(now))) < Len(ExampleDurations)
        /\ SubmitSession(ExampleClient, Json(Body(IntField(ExampleDurations[i]), Absent)),
                         "ok")

ExampleNext == ExamplePost

SpecExample == ExampleInit /\ [][ExampleNext]_vars

\* C18 as stated: submitting 30, 120, 300, 60, 45 in that order to an empty
\* day yields the percentiles 50, 0, 0, 33, 0: the response to the k-th session
\* carries the k-th of them.
ExamplePercentiles ==
    \A k \in DOMAIN ExampleDurations :
        (/\ Bucket(sessions_by_date, DateOf(now)) = SubSeq(ExampleDurations, 1, k)
         /\ response.status = 200)
        => response.percentile = <<50, 0, 0, 33, 0>>[k]

\* C18 amended: submitting 30, 120, 300, 60, 45 in that order to an empty day
\* yields the percentiles 50, 100, 100, 33, 25.
ExamplePercentilesByFormula ==
    \A k \in DOMAIN ExampleDurations :
        (/\ Bucket(sessions_by_date, DateOf(now)) = SubSeq(ExampleDurations, 1, k)
         /\ response.status = 200)
        => response.percentile = <<50, 100, 100, 33, 25>>[k]

\* the fifth session of the example has been answered
ExamplePercentilesSeen ==
    /\ Bucket(sessions_by_date, DateOf(now)) = ExampleDurations
    /\ response.status = 200
    /\ response.duration = 45
    /\ response.sessions_today = 5
    /\ response.percentile = 25

\* ------------------------------------------- message run: generate_message
\* generate_message is applied to every percentile from 0 to 100 with
\* durations that print as seconds, as minutes and as hours, and with several
\* session counts.
MsgPercentiles == 0..100
MsgDurations == {MIN_SESSION_DURATION, 61, 3661, MAX_SESSION_DURATION}
MsgTotals == {0, 1, MAX_SESSIONS_PER_DAY - 1}

MsgInit ==
    /\ Globals(NoFile)
    /\ threads = <<>>
    /\ pct = <<>>
    /\ \E d \in MsgDurations, p \in MsgPercentiles, t \in MsgTotals :
          msg = [duration |-> d, percentile |-> p, total_sessions |-> t,
                 called |-> FALSE, message |-> NoMessage]

MsgGenerate ==
    /\ ~msg.called
    /\ msg' = [msg EXCEPT !.called = TRUE,
                          !.message = generate_message(msg.duration, msg.percentile,
                                                       msg.total_sessions)]
    /\ UNCHANGED <<now, sessions_by_date, rate_limit_storage, IP_VIOLATIONS,
                   BLOCKED_IPS, ATTACK_PATTERNS, alerts, ALERT_COOLDOWN, security_log, monitor,
                   app_initialized, data_file,
                   response, arrivals, threads, pct>>

MsgNext == MsgGenerate

SpecMsg == MsgInit /\ [][MsgNext]_vars

\* C12: the message is a function of the percentile alone, by the tiers read
\* from the top: 99 and above the top-1% message; 95..98 "top N%" with
\* N = 100 - percentile; 90..94 "outlasted N%" with N the percentile; 75..89 and
\* 50..74 the two comparative messages naming the percentile; 25..49 the generic
\* encouragement; below 25 the beginner encouragement.
MessageByTier ==
    msg.called =>
        LET p == msg.percentile
        IN  msg.message =
              CASE p \in 99..100 ->
                     [text |-> "welcome to the nothing club - you are in the top 1% of users.",
                      n |-> 0 - 1]
                [] p \in 95..98 ->
                     [text |-> "stillness like this is rare - you're in the top {n}% of users.",
                      n |-> 100 - p]
                [] p \in 90..94 ->
                     [text |-> "exceptional focus - you outlasted {n}% of users today.",
                      n |-> p]
                [] p \in 75..89 ->
                     [text |-> "you were more still than {n}% of users today.", n |-> p]
                [] p \in 50..74 ->
                     [text |-> "good practice - you were more still than {n}% of users today.",
                      n |-> p]
                [] p \in 25..49 ->
                     [text |-> "every moment of stillness counts. keep practicing.",
                      n |-> 0 - 1]
                [] p \in 0..24 ->
                     [text |-> "stillness is a practice. this is a beautiful start.",
                      n |-> 0 - 1]

\* the boundary 95 opens the "top N%" tier, with N = 5, for the longest session
MessageByTierSeen ==
    /\ msg.called
    /\ msg.percentile = 95
    /\ msg.duration = MAX_SESSION_DURATION
    /\ msg.message.n = 5

\* ------------------------------------- threaded run: app.run(threaded=True)
\* The development server handles each request on a thread of its own and the
\* module takes no lock, so the statements of submit_session interleave.  A
\* thread is [pc, ip, req, t, today, duration, percentile, served]; a step is a
\* stretch of the handler that reads or writes the shared globals once.
Threads == 1..NumThreads

IdleThread ==
    [pc |-> "idle", ip |-> "none", req |-> Json(Body(Absent, Absent)), t |-> 0,
     today |-> 0, duration |-> 0, percentile |-> 0, served |-> 0]

\* the snapshots an earlier run of the service may have left: none, or the
\* current day's bucket one and two sessions short of the daily limit
ThreadFiles ==
    {NoFile} \cup
    {FileOf([d \in {DateOf(StartTime)} |-> Run(60, MAX_SESSIONS_PER_DAY - short)]) :
        short \in 1..2}

ThreadBodies == {Body(IntField(60), Absent), Body(IntField(0), Absent)}

ThreadInit ==
    /\ \E file \in ThreadFiles : Globals(file)
    /\ threads = [th \in Threads |-> IdleThread]
    /\ pct = <<>>
    /\ msg = <<>>

\* the thread moves on to its next stretch of the handler
Goto(th, pc) == threads' = [threads EXCEPT ![th].pc = pc]

\* the thread answers and is free again
Respond(th, resp) ==
    /\ response' = resp
    /\ threads' = [threads EXCEPT ![th].pc = "idle"]

SetSecurity(sec) ==
    /\ IP_VIOLATIONS' = sec.viol
    /\ BLOCKED_IPS' = sec.blocked
    /\ ATTACK_PATTERNS' = sec.patterns
    /\ alerts' = sec.alerts
    /\ ALERT_COOLDOWN' = sec.cooldown
    /\ UNCHANGED <<security_log, monitor>>

\* a request reaches a free thread
TAccept(th) ==
    \E ip \in Clients, body \in ThreadBodies :
        /\ threads[th].pc = "idle"
        /\ threads[th].served < MaxServed
        /\ threads' = [threads EXCEPT ![th] =
                          [@ EXCEPT !.pc = "init", !.ip = ip, !.req = Json(body),
                                    !.served = @ + 1]]
        /\ UNCHANGED <<now, sessions_by_date, rate_limit_storage, IP_VIOLATIONS,
                       BLOCKED_IPS, ATTACK_PATTERNS, alerts, ALERT_COOLDOWN,
                       security_log, monitor, app_initialized, data_file,
                       response, arrivals, pct, msg>>

\* ensure_initialized: "if not _app_initialized"
TEnsure(th) ==
    /\ threads[th].pc = "init"
    /\ Goto(th, IF app_initialized THEN "rate" ELSE "load")
    /\ UNCHANGED <<now, sessions_by_date, rate_limit_storage, IP_VIOLATIONS,
                   BLOCKED_IPS, ATTACK_PATTERNS, alerts, ALERT_COOLDOWN, security_log, monitor,
                   app_initialized, data_file,
                   response, arrivals, pct, msg>>

\* ensure_initialized: load_data()
TLoad(th) ==
    /\ threads[th].pc = "load"
    /\ sessions_by_date' = load_data(sessions_by_date, data_file)
    /\ Goto(th, "mark")
    /\ UNCHANGED <<now, rate_limit_storage, IP_VIOLATIONS, BLOCKED_IPS,
                   ATTACK_PATTERNS, alerts, ALERT_COOLDOWN, security_log, monitor,
                   app_initialized, data_file, response,
                   arrivals, pct, msg>>

\* ensure_initialized: "_app_initialized = True"
TMark(th) ==
    /\ threads[th].pc = "mark"
    /\ app_initialized' = TRUE
    /\ Goto(th, "rate")
    /\ UNCHANGED <<now, sessions_by_date, rate_limit_storage, IP_VIOLATIONS,
                   BLOCKED_IPS, ATTACK_PATTERNS, alerts, ALERT_COOLDOWN, security_log, monitor,
                   data_file, response, arrivals, pct, msg>>

\* check_rate_limit up to "if len(ip_requests) >= MAX_REQUESTS_PER_MINUTE"
TRateCheck(th) ==
    LET ip == threads[th].ip
        q == Evict(rate_limit_storage[ip], now)
        blocked == log_security_event(SecState, "BLOCKED_IP_ACCESS", ip, now)
        limited == detect_attack_patterns(
                      log_security_event(SecState, "RATE_LIMIT_EXCEEDED", ip, now),
                      ip, now)
    IN  /\ threads[th].pc = "rate"
        /\ IF IsBlocked(BLOCKED_IPS, ip)
           THEN /\ SetSecurity(blocked)
                /\ Respond(th, Reply("POST", ip, 429, "rate_limit"))
                /\ arrivals' = Arrived(arrivals, ip, now, FALSE, TRUE, TRUE)
                /\ UNCHANGED rate_limit_storage
           ELSE IF OverLimit(q)
           THEN /\ SetSecurity(limited)
                /\ Respond(th, Reply("POST", ip, 429, "rate_limit"))
                /\ arrivals' = Arrived(arrivals, ip, now, FALSE, TRUE, FALSE)
                /\ rate_limit_storage' = [rate_limit_storage EXCEPT ![ip] = q]
           ELSE /\ threads' = [threads EXCEPT ![th] = [@ EXCEPT !.pc = "rate_add", !.t = now]]
                /\ rate_limit_storage' = [rate_limit_storage EXCEPT ![ip] = q]
                /\ UNCHANGED <<IP_VIOLATIONS, BLOCKED_IPS, ATTACK_PATTERNS, alerts, ALERT_COOLDOWN,
                               security_log, monitor, response,
                               arrivals>>
        /\ UNCHANGED <<now, sessions_by_date, app_initialized, data_file, pct, msg>>

\* check_rate_limit: "ip_requests.append(current_time)"
TRateAdd(th) ==
    LET ip == threads[th].ip
    IN  /\ threads[th].pc = "rate_add"
        /\ rate_limit_storage' =
              [rate_limit_storage EXCEPT ![ip] = Append(@, threads[th].t)]
        /\ arrivals' = Arrived(arrivals, ip, threads[th].t, TRUE, FALSE, FALSE)
        /\ Goto(th, "validate")
        /\ UNCHANGED <<now, sessions_by_date, IP_VIOLATIONS, BLOCKED_IPS,
                       ATTACK_PATTERNS, alerts, ALERT_COOLDOWN, security_log, monitor,
                       app_initialized, data_file, response, pct, msg>>

\* the content-type check, validate_session_data and the date of the session
TValidate(th) ==
    LET ip == threads[th].ip
        req == threads[th].req
        verdict == validate_session_data(req.data, now)
    IN  /\ threads[th].pc = "validate"
        /\ IF ~req.json
           THEN /\ Respond(th, Reply("POST", ip, 400, "content_type"))
                /\ UNCHANGED <<IP_VIOLATIONS, BLOCKED_IPS, ATTACK_PATTERNS, alerts, ALERT_COOLDOWN,
                               security_log, monitor>>
           ELSE IF verdict.raised # "none"
           THEN /\ Respond(th, Reply("POST", ip, 500, "internal"))
                /\ UNCHANGED <<IP_VIOLATIONS, BLOCKED_IPS, ATTACK_PATTERNS, alerts, ALERT_COOLDOWN,
                               security_log, monitor>>
           ELSE IF ~verdict.ok
           THEN /\ SetSecurity(log_security_event(SecState, "INVALID_DATA", ip, now))
                /\ Respond(th, Reply("POST", ip, 400, verdict.msg))
           ELSE /\ threads' = [threads EXCEPT ![th] =
                                 [@ EXCEPT !.pc = "key",
                                           !.duration = IntOf(req.data.duration).v,
                                           !.today = DateOf(SessionTime(req.data, now))]]
                /\ UNCHANGED <<IP_VIOLATIONS, BLOCKED_IPS, ATTACK_PATTERNS, alerts, ALERT_COOLDOWN,
                               security_log, monitor, response>>
        /\ UNCHANGED <<now, sessions_by_date, rate_limit_storage, app_initialized,
                       data_file, arrivals, pct, msg>>

\* "if today not in sessions_by_date"
TKey(th) ==
    /\ threads[th].pc = "key"
    /\ Goto(th, IF threads[th].today \in DOMAIN sessions_by_date THEN "limit" ELSE "key_set")
    /\ UNCHANGED <<now, sessions_by_date, rate_limit_storage, IP_VIOLATIONS,
                   BLOCKED_IPS, ATTACK_PATTERNS, alerts, ALERT_COOLDOWN, security_log, monitor,
                   app_initialized, data_file,
                   response, arrivals, pct, msg>>

\* "sessions_by_date[today] = []"
TKeySet(th) ==
    LET today == threads[th].today
    IN  /\ threads[th].pc = "key_set"
        /\ sessions_by_date' =
              [d \in DOMAIN sessions_by_date \cup {today} |->
                  IF d = today THEN <<>> ELSE sessions_by_date[d]]
        /\ Goto(th, "limit")
        /\ UNCHANGED <<now, rate_limit_storage, IP_VIOLATIONS, BLOCKED_IPS,
                       ATTACK_PATTERNS, alerts, ALERT_COOLDOWN, security_log, monitor,
                       app_initialized, data_file, response,
                       arrivals, pct, msg>>

\* "if len(sessions_by_date[today]) >= MAX_SESSIONS_PER_DAY"
TLimit(th) ==
    LET ip == threads[th].ip
    IN  /\ threads[th].pc = "limit"
        /\ IF DayFull(sessions_by_date[threads[th].today])
           THEN /\ SetSecurity(log_security_event(SecState, "DAILY_LIMIT_EXCEEDED", ip, now))
                /\ Respond(th, Reply("POST", ip, 429, "daily_limit"))
           ELSE /\ Goto(th, "append")
                /\ UNCHANGED <<IP_VIOLATIONS, BLOCKED_IPS, ATTACK_PATTERNS, alerts, ALERT_COOLDOWN,
                               security_log, monitor, response>>
        /\ UNCHANGED <<now, sessions_by_date, rate_limit_storage, app_initialized,
                       data_file, arrivals, pct, msg>>

\* "sessions_by_date[today].append(duration)"
TAppend(th) ==
    /\ threads[th].pc = "append"
    /\ sessions_by_date' =
          [sessions_by_date EXCEPT ![threads[th].today] = Append(@, threads[th].duration)]
    /\ Goto(th, "score")
    /\ UNCHANGED <<now, rate_limit_storage, IP_VIOLATIONS, BLOCKED_IPS,
                   ATTACK_PATTERNS, alerts, ALERT_COOLDOWN, security_log, monitor,
                   app_initialized, data_file, response, arrivals, pct, msg>>

\* "today_sessions = sessions_by_date[today][:-1]" and calculate_percentile
TScore(th) ==
    LET today_sessions == ExcludeCurrent(sessions_by_date[threads[th].today])
    IN  /\ threads[th].pc = "score"
        /\ threads' = [threads EXCEPT ![th] =
                          [@ EXCEPT !.pc = "save",
                                    !.percentile =
                                        calculate_percentile(threads[th].duration,
                                                             today_sessions)]]
        /\ UNCHANGED <<now, sessions_by_date, rate_limit_storage, IP_VIOLATIONS,
                       BLOCKED_IPS, ATTACK_PATTERNS, alerts, ALERT_COOLDOWN,
                       security_log, monitor, app_initialized, data_file,
                       response, arrivals, pct, msg>>

\* save_data() and the 200 response
TSave(th) ==
    /\ threads[th].pc = "save"
    /\ data_file' = save_data(sessions_by_date, data_file, "ok")
    /\ Respond(th, Scored(threads[th].ip, threads[th].duration, threads[th].percentile,
                          sessions_by_date, threads[th].today))
    /\ UNCHANGED <<now, sessions_by_date, rate_limit_storage, IP_VIOLATIONS,
                   BLOCKED_IPS, ATTACK_PATTERNS, alerts, ALERT_COOLDOWN, security_log, monitor,
                   app_initialized, arrivals, pct, msg>>

ThreadNext ==
    \E th \in Threads :
        \/ TAccept(th)
        \/ TEnsure(th)
        \/ TLoad(th)
        \/ TMark(th)
        \/ TRateCheck(th)
        \/ TRateAdd(th)
        \/ TValidate(th)
        \/ TKey(th)
        \/ TKeySet(th)
        \/ TLimit(th)
        \/ TAppend(th)
        \/ TScore(th)
        \/ TSave(th)

SpecThreads == ThreadInit /\ [][ThreadNext]_vars

\* the threads that passed the daily-limit check for a date and have yet to append
Appending(d) == {th \in Threads : threads[th].pc = "append" /\ threads[th].today = d}

\* C3: under the threaded server no interleaving lets a bucket grow beyond
\* MAX_SESSIONS_PER_DAY: the sessions stored for a date and the requests that
\* passed its daily-limit check and are about to append never exceed the limit.
ThreadsKeepDailyCap ==
    \A d \in DOMAIN sessions_by_date :
        Len(sessions_by_date[d]) + Cardinality(Appending(d)) <= MAX_SESSIONS_PER_DAY

\* C26: under the threaded server load_data runs at most once in a process,
\* and no run of it takes a session out of sessions_by_date: when a thread
\* loads the snapshot no other thread has loaded it before, and every date
\* keeps the durations it held.
SnapshotLoadedOnce ==
    [][\A th \in Threads :
          TLoad(th) =>
              /\ ~app_initialized
              /\ \A other \in Threads : threads[other].pc # "mark"
              /\ \A d \in DOMAIN sessions_by_date :
                    /\ d \in DOMAIN sessions_by_date'
                    /\ Len(sessions_by_date'[d]) >= Len(sessions_by_date[d])
                    /\ SubSeq(sessions_by_date'[d], 1, Len(sessions_by_date[d]))
                          = sessions_by_date[d]]_vars

\* ------------------------------ race run: two requests at the rate limit
\* A client sends requests one after the other, each answered before the next
\* arrives, until its rate window is one short of the limit; then a request of
\* it reaches each thread and the two are handled side by side.  By then the
\* process is initialized and the day has its bucket, so that load_data and
\* the creation of the bucket have no part in the run.
RaceClient == "ip1"
RaceBody == Body(IntField(60), Absent)

RaceInit == ThreadInit /\ data_file = NoFile

RaceWarm ==
    /\ \A th \in Threads : threads[th].pc = "idle" /\ threads[th].served = 0
    /\ Len(rate_limit_storage[RaceClient]) < MAX_REQUESTS_PER_MINUTE - 1
    /\ SubmitSession(RaceClient, Json(RaceBody), "ok")

RaceAccept(th) ==
    /\ Len(rate_limit_storage[RaceClient]) >= MAX_REQUESTS_PER_MINUTE - 1
    /\ threads[th].served = 0
    /\ TAccept(th)
    /\ threads'[th].ip = RaceClient
    /\ threads'[th].req = Json(RaceBody)

RaceNext ==
    \/ RaceWarm
    \/ \E th \in Threads :
          \/ RaceAccept(th)
          \/ TEnsure(th)
          \/ TRateCheck(th)
          \/ TRateAdd(th)
          \/ TValidate(th)
          \/ TKey(th)
          \/ TLimit(th)
          \/ TAppend(th)
          \/ TScore(th)
          \/ TSave(th)

SpecRace == RaceInit /\ [][RaceNext]_vars

\* C20: under the threaded server no interleaving of the steps of
\* check_rate_limit admits more than MAX_REQUESTS_PER_MINUTE requests of one
\* client within one rate window.
ThreadsKeepRateLimit ==
    \A c \in Clients :
        Cardinality({i \in DOMAIN arrivals[c] : arrivals[c][i].admitted})
            <= MAX_REQUESTS_PER_MINUTE

\* --------------------------- alert run: violations around the thresholds
\* A client sends invalid and valid sessions one after the other, each
\* answered before the next arrives, until its violation count is one short of
\* the block threshold; then an invalid request of it reaches each thread and
\* the two are handled side by side.  All of it happens within one second.
AlertClient == "ip1"
AlertInvalid == Body(IntField(MIN_SESSION_DURATION - 1), Absent)
AlertValid == Body(IntField(60), Absent)

AlertInit == ThreadInit /\ data_file = NoFile

AlertWarm ==
    \E body \in {AlertInvalid, AlertValid} :
        /\ \A th \in Threads : threads[th].pc = "idle" /\ threads[th].served = 0
        /\ IP_VIOLATIONS[AlertClient] < BLOCK_THRESHOLD - 1
        /\ SubmitSession(AlertClient, Json(body), "ok")

AlertAccept(th) ==
    /\ IP_VIOLATIONS[AlertClient] >= BLOCK_THRESHOLD - 1
    /\ threads[th].served = 0
    /\ TAccept(th)
    /\ threads'[th].ip = AlertClient
    /\ threads'[th].req = Json(AlertInvalid)

AlertNext ==
    \/ AlertWarm
    \/ \E th \in Threads :
          \/ AlertAccept(th)
          \/ TEnsure(th)
          \/ TRateCheck(th)
          \/ TRateAdd(th)
          \/ TValidate(th)

SpecAlert == AlertInit /\ [][AlertNext]_vars

CooldownSuppresses ==
    \A i, j \in DOMAIN alerts :
        (/\ i < j
         /\ alerts[i].type = alerts[j].type
         /\ alerts[i].subject = alerts[j].subject)
        => alerts[j].time - alerts[i].time >= 300

\* ------------------------------- monitor run: the dashboard tails the log
\* The dashboard is a process of its own: it calls read_new_logs every five
\* seconds while other processes write security.log.  The logging handler of
\* the service appends lines; test_monitor.py opens the file with mode "w",
\* which empties it, and writes one line.  Lines are short or long.
LineLens == {2, 3}

MonitorInit == Fresh(NoFile)

\* what a writer leaves of the file, the service and the monitor untouched
LogWrite(lines, written) ==
    /\ security_log' = [exists |-> TRUE, lines |-> lines, written |-> written]
    /\ UNCHANGED <<now, sessions_by_date, rate_limit_storage, IP_VIOLATIONS,
                   BLOCKED_IPS, ATTACK_PATTERNS, alerts, ALERT_COOLDOWN, monitor,
                   app_initialized, data_file, response, arrivals, threads, pct, msg>>

\* logging.FileHandler('security.log') emits a record
LogAppend ==
    \E n \in LineLens :
        /\ security_log.written < MaxLogLines
        /\ LogWrite(Append(security_log.lines,
                           [id |-> security_log.written + 1, len |-> n]),
                    security_log.written + 1)

\* open("security.log", "w") of test_monitor.py, before its write
LogTruncate ==
    /\ security_log.lines # <<>>
    /\ LogWrite(<<>>, security_log.written)

\* test_monitor.py from start to end
LogRewrite ==
    \E n \in LineLens :
        /\ security_log.written < MaxLogLines
        /\ LogWrite(<<[id |-> security_log.written + 1, len |-> n]>>,
                    security_log.written + 1)

\* one round of SecurityMonitor.monitor
MonitorRead ==
    /\ monitor.calls < MaxReads
    /\ monitor' = read_new_logs(security_log, monitor)
    /\ UNCHANGED <<now, sessions_by_date, rate_limit_storage, IP_VIOLATIONS,
                   BLOCKED_IPS, ATTACK_PATTERNS, alerts, ALERT_COOLDOWN, security_log,
                   app_initialized, data_file, response, arrivals, threads, pct, msg>>

MonitorNext == LogAppend \/ LogTruncate \/ LogRewrite \/ MonitorRead

SpecMonitor == MonitorInit /\ [][MonitorNext]_vars

\* C29: after every call of read_new_logs, each line that is in security.log
\* has been returned by exactly one call, whole, and the calls have returned
\* no line twice and no piece of a line; also when the file was emptied or
\* rewritten to less than last_position bytes before the call.
EveryLineOnce ==
    [][monitor'.calls # monitor.calls
          => /\ \A i \in 1..Len(security_log'.lines) :
                   \E j \in 1..Len(monitor'.seen) :
                       monitor'.seen[j].id = security_log'.lines[i].id
             /\ \A j \in 1..Len(monitor'.seen) : monitor'.seen[j].whole
             /\ \A j, k \in 1..Len(monitor'.seen) :
                   monitor'.seen[j].id = monitor'.seen[k].id => j = k]_vars

====
